---- MODULE Spec2Model ----
(***************************************************************************)
(* TimeCrate: time-locked content delivery.                                *)
(*   backend/server.js     the orchestrator: /upload and /api/reconstruct  *)
(*   contracts/TimeCrate.sol  the ledger (ERC-721 crate registry)          *)
(*   frontend CreateCrate.tsx / MyCrates.tsx  the create and unlock flows  *)
(*   keeper nodes and the secret-sharing library are not part of the       *)
(*   sources at hand; they are modelled from the specification (4.2, 4.3)  *)
(***************************************************************************)
EXTENDS Integers, Sequences, FiniteSets, TLC

(***************************************************************************)
(* Bounds of the model                                                     *)
(***************************************************************************)
\* the splitter's field is GF(2^Bits); the program runs it with 8 bits
Bits == 3
\* largest number of shares the splitter is exercised with on its own
MaxShares == 3
\* block timestamps run from 0 to MaxTime
MaxTime == 2
\* runs of the create flow (each makes one /upload request)
MaxCreates == 1
\* tokens the ledger mints
MaxTokens == 2

(***************************************************************************)
(* Program constants                                                       *)
(***************************************************************************)
\* secrets.share(keyInHex, 5, 3): five shares
TotalShares == 5
\* secrets.share(keyInHex, 5, 3) and the quorum checks: threshold three
Threshold == 3

\* KEEPER_NODES, by position in the configuration (1 is http://localhost:4001)
KEEPER_NODES == <<1, 2, 3, 4, 5>>
Keepers == {KEEPER_NODES[i] : i \in 1..Len(KEEPER_NODES)}

(***************************************************************************)
(* Finite field GF(2^Bits): addition is XOR, multiplication is carry-less  *)
(* multiplication reduced by a primitive polynomial                        *)
(***************************************************************************)
FieldSize == 2^Bits
Field == 0..(FieldSize - 1)

\* low-order coefficients of the primitive polynomial of degree b
PrimitivePolynomial(b) ==
    CASE b = 2 -> 3 [] b = 3 -> 3 [] b = 4 -> 3 [] b = 5 -> 5
      [] b = 6 -> 3 [] b = 7 -> 3 [] OTHER -> 29

RECURSIVE XorNat(_, _)
XorNat(a, b) ==
    IF a = 0 THEN b
    ELSE IF b = 0 THEN a
    ELSE (((a % 2) + (b % 2)) % 2) + 2 * XorNat(a \div 2, b \div 2)

\* multiplication by x, reduced
XTimes(a) ==
    IF 2 * a >= FieldSize
    THEN XorNat(2 * a - FieldSize, PrimitivePolynomial(Bits))
    ELSE 2 * a

RECURSIVE MulRec(_, _)
MulRec(a, b) ==
    IF b = 0 THEN 0
    ELSE XorNat(IF (b % 2) = 1 THEN a ELSE 0, MulRec(XTimes(a), b \div 2))

XorTable == [a \in Field |-> [b \in Field |-> XorNat(a, b)]]
MulTable == [a \in Field |-> [b \in Field |-> MulRec(a, b)]]
InvTable == [a \in Field \ {0} |-> CHOOSE c \in Field \ {0} : MulRec(a, c) = 1]

GfAdd(a, b) == XorTable[a][b]
GfMul(a, b) == MulTable[a][b]
GfDiv(a, b) == MulTable[a][InvTable[b]]

(***************************************************************************)
(* Threshold splitter (Shamir).  A secret is one field element; a share    *)
(* string is <<bits, x, y>>: the field width, the x-coordinate and the     *)
(* evaluation.  The empty string is <<>>.                                  *)
(***************************************************************************)
ShareBits(s) == s[1]
ShareId(s) == s[2]
ShareData(s) == s[3]

\* the polynomial secret + c[1] x + ... + c[k-1] x^(k-1) at x, by Horner's rule
EvalPoly(x, secret, coeffs) ==
    LET RECURSIVE Go(_)
        Go(i) == IF i > Len(coeffs) THEN 0
                 ELSE GfAdd(coeffs[i], GfMul(x, Go(i + 1)))
    IN  GfAdd(secret, GfMul(x, Go(1)))

\* split(secret, n, k): n points of a polynomial of degree k-1 whose constant
\* term is the secret; coeffs are the k-1 random coefficients
Split(secret, n, k, coeffs) ==
    [x \in 1..n |-> <<Bits, x, EvalPoly(x, secret, coeffs)>>]

\* an interpolation that takes the i-th share given for the point at x = i
LagrangeByPosition(shares) ==
    LET m == Len(shares)
        RECURSIVE Basis(_, _)
        Basis(i, j) ==
            IF j > m THEN 1
            ELSE IF j = i THEN Basis(i, j + 1)
            ELSE GfMul(GfDiv(j, GfAdd(i, j)), Basis(i, j + 1))
        RECURSIVE Sum(_)
        Sum(i) == IF i > m THEN 0
                  ELSE GfAdd(GfMul(ShareData(shares[i]), Basis(i, 1)), Sum(i + 1))
    IN  Sum(1)

\* Lagrange interpolation at x = 0 over the points given
Lagrange(shares) ==
    LET m == Len(shares)
        RECURSIVE Basis(_, _)
        Basis(i, j) ==
            IF j > m THEN 1
            ELSE IF j = i THEN Basis(i, j + 1)
            ELSE GfMul(GfDiv(ShareId(shares[j]),
                             GfAdd(ShareId(shares[i]), ShareId(shares[j]))),
                       Basis(i, j + 1))
        RECURSIVE Sum(_)
        Sum(i) == IF i > m THEN 0
                  ELSE GfAdd(GfMul(ShareData(shares[i]), Basis(i, 1)), Sum(i + 1))
    IN  Sum(1)

WellFormedShare(s) ==
    /\ Len(s) = 3
    /\ ShareBits(s) = Bits
    /\ ShareId(s) \in Field \ {0}
    /\ ShareData(s) \in Field

DistinctIds(shares) ==
    \A i, j \in 1..Len(shares) : i # j => ShareId(shares[i]) # ShareId(shares[j])

\* combine(shares): fails on a malformed share, on a duplicate x-coordinate
\* and on fewer than 2 distinct shares; otherwise interpolates
Combine(shares) ==
    IF \E i \in 1..Len(shares) : ~WellFormedShare(shares[i])
    THEN [ok |-> FALSE, key |-> 0]
    ELSE IF ~DistinctIds(shares) \/ Len(shares) < 2
    THEN [ok |-> FALSE, key |-> 0]
    ELSE [ok |-> TRUE, key |-> Lagrange(shares)]


(***************************************************************************)
(* Cipher: AES-256-CBC with a random IV, scaled down.  A key is one field  *)
(* element (Bits bits); a block is half as wide (Bits-1 bits), as the      *)
(* 128-bit block of AES is to its 256-bit key.  A buffer is a sequence of  *)
(* blocks; the IV is one block.                                            *)
(***************************************************************************)
BlockSize == 2^(Bits - 1)
Blocks == 0..(BlockSize - 1)

\* the padding block final() appends to a block-aligned buffer (PKCS#7)
PadBlock == <<1>>

\* the block cipher: for every key a permutation of the blocks
EncryptBlock(b, key) ==
    LET shifted == (b + (key % BlockSize)) % BlockSize
    IN  IF key \div BlockSize = 0 THEN shifted ELSE (BlockSize - 1) - shifted

\* its inverse
DecryptBlock(c, key) ==
    LET shifted == IF key \div BlockSize = 0 THEN c ELSE (BlockSize - 1) - c
    IN  (shifted + BlockSize - (key % BlockSize)) % BlockSize

\* createCipheriv / createDecipheriv accept a key of the cipher's key length only
ValidKeyLength(key) == key \in Field

\* cipher.update(buffer) ++ cipher.final(): CBC chaining from the IV
CbcEncrypt(buffer, key, iv) ==
    LET padded == buffer \o PadBlock
        RECURSIVE Go(_, _)
        Go(i, prev) ==
            IF i > Len(padded) THEN <<>>
            ELSE LET c == EncryptBlock(GfAdd(padded[i], prev), key)
                 IN  <<c>> \o Go(i + 1, c)
    IN  Go(1, iv)

\* an encryptData that leaves the IV out of its result
encryptDataNoIv(buffer, key, iv) == CbcEncrypt(buffer, key, iv)

\* encryptData(buffer, key): IV + encrypted data
encryptData(buffer, key, iv) == <<iv>> \o CbcEncrypt(buffer, key, iv)

\* a decryptData that hands back whatever it deciphered, padding checked or not
decryptDataUnchecked(encryptedBuffer, keyHex) ==
    LET encryptedData == IF Len(encryptedBuffer) >= 1
                         THEN Tail(encryptedBuffer) ELSE <<>>
        key == keyHex % FieldSize
        plain == [i \in 1..Len(encryptedData) |->
                     GfAdd(DecryptBlock(encryptedData[i], key),
                           IF i = 1 THEN encryptedBuffer[1] ELSE encryptedData[i - 1])]
    IN  [ok |-> TRUE,
         data |-> IF Len(plain) = 0 THEN <<>> ELSE SubSeq(plain, 1, Len(plain) - 1)]

\* decryptData(encryptedBuffer, keyHex): the first block is the IV;
\* createDecipheriv throws on a key or an IV of the wrong length, final()
\* throws when there is no block left or the padding is wrong
decryptData(encryptedBuffer, keyHex) ==
    LET iv == IF Len(encryptedBuffer) >= 1 THEN encryptedBuffer[1] ELSE 0
        encryptedData == IF Len(encryptedBuffer) >= 1
                         THEN Tail(encryptedBuffer) ELSE <<>>
        plain == [i \in 1..Len(encryptedData) |->
                     GfAdd(DecryptBlock(encryptedData[i], keyHex),
                           IF i = 1 THEN iv ELSE encryptedData[i - 1])]
    IN  IF ~ValidKeyLength(keyHex)
        THEN [ok |-> FALSE, data |-> <<>>]
        ELSE IF Len(encryptedBuffer) < 1 \/ Len(encryptedData) = 0
        THEN [ok |-> FALSE, data |-> <<>>]
        ELSE IF plain[Len(plain)] # PadBlock[1]
        THEN [ok |-> FALSE, data |-> <<>>]
        ELSE [ok |-> TRUE, data |-> SubSeq(plain, 1, Len(plain) - 1)]

\* the first quarter or so of a key: encryptionKey.substring(0, 16)
KeyPrefix(key) == key \div BlockSize

(***************************************************************************)
(* State                                                                   *)
(***************************************************************************)
VARIABLES
    now,           \* ledger: block.timestamp
    ownerOf,       \* ledger: ERC-721 owner of token i-1 at position i
    crateInfo,     \* ledger: Crate record of token i-1 at position i
    keeperShares,  \* keeper k's store: content id -> share (<<>> when none)
    ipfs,          \* pinned blobs; the content id of a blob is its position
    upload,        \* the /upload request being handled
    create,        \* the CreateCrate page's handleCreateCrate run
    keeperReq,     \* the last get-share request a keeper answered
    unlockModal,   \* the MyCrates page's unlock modal
    recon,         \* the last /api/reconstruct request and its response
    sss,           \* the splitter exercised on its own
    cipher,        \* the cipher exercised on its own
    tx,            \* ledger: the last call made of the contract, with its outcome
    upload2,       \* a second /upload request, handled while the first is
    page           \* the MyCrates page: its crate cards, the browser's clock, a fetch under way

vars == <<now, ownerOf, crateInfo, keeperShares, ipfs, upload, create,
          keeperReq, unlockModal, recon, sss, cipher, tx, upload2, page>>

(***************************************************************************)
(* The splitter on its own: split a secret, combine a choice of shares     *)
(***************************************************************************)
SssIdle == [phase |-> "idle", secret |-> 0, n |-> 0, k |-> 0,
            shares |-> <<>>, picked |-> <<>>, result |-> [ok |-> FALSE, key |-> 0]]

\* the sequences of k distinct positions of 1..n: a k-subset in some order
ArrangementTable ==
    [n \in 1..MaxShares |-> [k \in 1..n |->
        {p \in [1..k -> 1..n] : \A i, j \in 1..k : i # j => p[i] # p[j]}]]
Arrangements(n, k) == ArrangementTable[n][k]

SplitSecret ==
    /\ sss.phase = "idle"
    /\ \E secret \in Field, n \in 1..MaxShares :
       \E k \in 1..n :
       \E coeffs \in [1..(k - 1) -> Field] :
          sss' = [SssIdle EXCEPT !.phase = "split", !.secret = secret,
                                 !.n = n, !.k = k,
                                 !.shares = Split(secret, n, k, coeffs)]
    /\ UNCHANGED <<now, ownerOf, crateInfo, keeperShares, ipfs, upload, create,
                   keeperReq, unlockModal, recon, cipher, tx, upload2, page>>

CombineShares ==
    /\ sss.phase = "split"
    /\ \E p \in Arrangements(sss.n, sss.k) :
          LET picked == [i \in 1..sss.k |-> sss.shares[p[i]]]
          IN  sss' = [sss EXCEPT !.phase = "combined", !.picked = picked,
                                 !.result = Combine(picked)]
    /\ UNCHANGED <<now, ownerOf, crateInfo, keeperShares, ipfs, upload, create,
                   keeperReq, unlockModal, recon, cipher, tx, upload2, page>>


(***************************************************************************)
(* Ledger: contracts/TimeCrate.sol.  Token ids start at 0; token t is at   *)
(* position t+1 of ownerOf and crateInfo.                                  *)
(***************************************************************************)
Addresses == {"alice", "bob"}
ZeroAddress == "0x0"
\* the empty string as a content id
EmptyCid == 0
\* the content ids of the blobs the create flow pins, and one more
Cids == 1..(MaxCreates + 1)

totalSupply == Len(crateInfo)
TokenExists(tokenId) == tokenId \in 0..(totalSupply - 1)
OwnerOfToken(tokenId) == ownerOf[tokenId + 1]
CrateOf(tokenId) == crateInfo[tokenId + 1]

\* requires that let a release time equal to the block timestamp pass
CreateCrateRequiresNotPast(recipient, cid, releaseTime, keeperUrls) ==
    /\ recipient # ZeroAddress
    /\ releaseTime >= now
    /\ cid # EmptyCid
    /\ Len(keeperUrls) > 0

\* the four require statements of createCrate
CreateCrateRequires(recipient, cid, releaseTime, keeperUrls) ==
    /\ recipient # ZeroAddress
    /\ releaseTime > now
    /\ cid # EmptyCid
    /\ Len(keeperUrls) > 0

\* a createCrate that mints the id of the last token again
MintCrateSameId(recipient, cid, releaseTime, keeperUrls) ==
    LET crate == [ipfsCid |-> cid, releaseTime |-> releaseTime,
                  keeperUrls |-> keeperUrls, released |-> FALSE,
                  createdAt |-> now]
    IN  IF crateInfo = <<>>
        THEN /\ ownerOf' = <<recipient>>
             /\ crateInfo' = <<crate>>
        ELSE /\ ownerOf' = [ownerOf EXCEPT ![Len(ownerOf)] = recipient]
             /\ crateInfo' = [crateInfo EXCEPT ![Len(crateInfo)] = crate]

\* a createCrate that records no creation time
MintCrateUndated(recipient, cid, releaseTime, keeperUrls) ==
    /\ ownerOf' = Append(ownerOf, recipient)
    /\ crateInfo' = Append(crateInfo,
                      [ipfsCid |-> cid, releaseTime |-> releaseTime,
                       keeperUrls |-> keeperUrls, released |-> FALSE,
                       createdAt |-> 0])

\* createCrate past its requires: mint token totalSupply, record the crate
MintCrate(recipient, cid, releaseTime, keeperUrls) ==
    /\ ownerOf' = Append(ownerOf, recipient)
    /\ crateInfo' = Append(crateInfo,
                      [ipfsCid |-> cid, releaseTime |-> releaseTime,
                       keeperUrls |-> keeperUrls, released |-> FALSE,
                       createdAt |-> now])

\* an isReleaseReady that turns true one block late
isReleaseReadyLate(tokenId) == now > CrateOf(tokenId).releaseTime

\* isReleaseReady(tokenId), for an existing token
isReleaseReady(tokenId) == now >= CrateOf(tokenId).releaseTime

\* a block is mined: block.timestamp advances
Tick ==
    /\ now < MaxTime
    /\ now' = now + 1
    /\ UNCHANGED <<ownerOf, crateInfo, keeperShares, ipfs, upload, create,
                   keeperReq, unlockModal, recon, sss, cipher, tx, upload2, page>>

\* ERC-721 transferFrom by the token's owner
TransferFrom ==
    /\ \E tokenId \in 0..(totalSupply - 1), to \in Addresses :
          /\ to # OwnerOfToken(tokenId)
          /\ ownerOf' = [ownerOf EXCEPT ![tokenId + 1] = to]
    /\ UNCHANGED <<now, crateInfo, keeperShares, ipfs, upload, create,
                   keeperReq, unlockModal, recon, sss, cipher, tx, upload2, page>>

\* createCrate is public: any account may call it with any arguments
createCrate(recipients, cids, dates) ==
    /\ totalSupply < MaxTokens
    /\ \E recipient \in recipients, cid \in cids, releaseTime \in dates :
          /\ CreateCrateRequires(recipient, cid, releaseTime, <<KEEPER_NODES[1]>>)
          /\ MintCrate(recipient, cid, releaseTime, <<KEEPER_NODES[1]>>)
    /\ UNCHANGED <<now, keeperShares, ipfs, upload, create,
                   keeperReq, unlockModal, recon, sss, cipher, tx, upload2, page>>

(***************************************************************************)
(* Keeper (specification 4.3): one share per content id, released only     *)
(* when the authority answers both predicates with true                    *)
(***************************************************************************)
NoShare == <<>>

\* a storeShare that takes whatever it is sent
StoreShareAlways(k, cid, share) == TRUE

\* storeShare(crateId, share): rejected with AlreadyStored when the slot
\* holds another share; storing the identical share again changes nothing
StoreShareAccepted(k, cid, share) ==
    keeperShares[k][cid] = NoShare \/ keeperShares[k][cid] = share

\* requestShare(crateId, requesterIdentity, crateRef), evaluated on the
\* ledger as it is at the call
requestShare(k, cid, requester, tokenId, authorityUp) ==
    IF ~authorityUp
    THEN [status |-> "AuthorityUnavailable", reason |-> "", share |-> NoShare]
    ELSE IF ~TokenExists(tokenId) \/ cid \notin Cids
    THEN [status |-> "Denied", reason |-> "UnknownCrate", share |-> NoShare]
    ELSE IF keeperShares[k][cid] = NoShare
    THEN [status |-> "Denied", reason |-> "UnknownCrate", share |-> NoShare]
    ELSE IF OwnerOfToken(tokenId) # requester
    THEN [status |-> "Denied", reason |-> "NotOwner", share |-> NoShare]
    ELSE IF ~isReleaseReady(tokenId)
    THEN [status |-> "Denied", reason |-> "NotReady", share |-> NoShare]
    ELSE [status |-> "Share", reason |-> "", share |-> keeperShares[k][cid]]


(***************************************************************************)
(* Orchestrator, POST /upload (backend/server.js)                          *)
(***************************************************************************)
KeeperIndexes == 1..Len(KEEPER_NODES)

NoResponse ==
    [status |-> 0, error |-> "", ipfsCid |-> EmptyCid, sharesDistributed |-> 0,
     keeperUrls |-> <<>>, manualShares |-> <<>>,
     successfulDistributions |-> 0, required |-> 0, totalKeepers |-> 0]

UploadIdle ==
    [pc |-> "idle", file |-> <<>>, encryptionKey |-> 0, ipfsCid |-> EmptyCid,
     shares |-> <<>>, calls |-> <<>>,
     wire |-> [i \in KeeperIndexes |-> "none"],
     results |-> [i \in KeeperIndexes |-> "none"],
     res |-> NoResponse,
     log |-> [shares |-> <<>>, keys |-> <<>>]]

\* pinFileToIPFS: content-addressed, the same bytes get the same id
PinnedCid(blob) ==
    IF \E c \in 1..Len(ipfs) : ipfs[c] = blob
    THEN CHOOSE c \in 1..Len(ipfs) : ipfs[c] = blob
    ELSE Len(ipfs) + 1

\* a call without the .catch: its failure rejects the promise
NoCatch(outcome) ==
    IF outcome = "error" THEN "rejected" ELSE "response"

\* axios.post(...).catch(err => null): what the call contributes to
\* distributionPromises once it has settled with this outcome
CatchDelivery(outcome) ==
    IF outcome = "error" THEN "null" ELSE "response"

\* Promise.all: rejected as soon as one promise is, fulfilled once all are
PromiseAll(results) ==
    IF \E i \in KeeperIndexes : results[i] = "rejected" THEN "rejected"
    ELSE IF \A i \in KeeperIndexes : results[i] # "pending" THEN "fulfilled"
    ELSE "pending"

\* results.length: every settled call, failed or not
settledDistributions(results) ==
    Cardinality({i \in KeeperIndexes : results[i] # "pending"})

\* the successes before the first failure
leadingDistributions(results) ==
    Cardinality({i \in KeeperIndexes :
                    \A j \in 1..i : results[j] # "null"})

\* results.filter(r => r !== null).length
successfulDistributions(results) ==
    Cardinality({i \in KeeperIndexes : results[i] # "null"})

\* the configured list, whatever the results
allKeeperUrls(results) == KEEPER_NODES

\* the loop that pushes KEEPER_NODES[i] for every results[i] !== null
activeKeeperUrls(results) ==
    LET RECURSIVE Go(_)
        Go(i) == IF i > Len(KEEPER_NODES) THEN <<>>
                 ELSE IF results[i] # "null"
                 THEN <<KEEPER_NODES[i]>> \o Go(i + 1)
                 ELSE Go(i + 1)
    IN  Go(1)

\* the outer catch: res.status(500) with the generic error
CatchAllResponse ==
    [NoResponse EXCEPT !.status = 500,
                       !.error = "An error occurred during the upload/encryption/split process."]

\* a quorum check whose failure payload carries the backup shares
QuorumResponseLeaking(cid, shares, results) ==
    IF successfulDistributions(results) < 3
    THEN [NoResponse EXCEPT
            !.status = 500,
            !.error = "Failed to distribute enough shares to keeper nodes. Need at least 3 keepers online.",
            !.successfulDistributions = successfulDistributions(results),
            !.required = 3,
            !.totalKeepers = Len(KEEPER_NODES),
            !.manualShares = <<shares[2], shares[3]>>]
    ELSE [NoResponse EXCEPT
            !.status = 200,
            !.ipfsCid = cid,
            !.sharesDistributed = successfulDistributions(results),
            !.keeperUrls = activeKeeperUrls(results),
            !.manualShares = <<shares[2], shares[3]>>]

\* the quorum check and the two responses that follow it
QuorumResponse(cid, shares, results) ==
    IF successfulDistributions(results) < 3
    THEN [NoResponse EXCEPT
            !.status = 500,
            !.error = "Failed to distribute enough shares to keeper nodes. Need at least 3 keepers online.",
            !.successfulDistributions = successfulDistributions(results),
            !.required = 3,
            !.totalKeepers = Len(KEEPER_NODES)]
    ELSE [NoResponse EXCEPT
            !.status = 200,
            !.ipfsCid = cid,
            !.sharesDistributed = successfulDistributions(results),
            !.keeperUrls = activeKeeperUrls(results),
            !.manualShares = <<shares[2], shares[3]>>]

\* a loop that posts the first share to every keeper
StoreShareCallFirst(i, cid, shares) ==
    [keeper |-> KEEPER_NODES[i], id |-> cid, share |-> shares[1]]

\* axios.post(`${KEEPER_NODES[i]}/store-share`, {id: ipfsCid, share: shares[i]})
StoreShareCall(i, cid, shares) ==
    [keeper |-> KEEPER_NODES[i], id |-> cid, share |-> shares[i]]

\* the handler's locals once the pin has returned cid: the split and one
\* store-share call started per keeper, the key head and the shares logged
Distributing(file, key, coeffs, cid) ==
    LET shares == Split(key, TotalShares, Threshold, coeffs)
    IN  [UploadIdle EXCEPT
           !.pc = "distributing", !.file = file,
           !.encryptionKey = key, !.ipfsCid = cid,
           !.shares = shares,
           !.calls = [i \in KeeperIndexes |-> StoreShareCall(i, cid, shares)],
           !.wire = [i \in KeeperIndexes |-> "pending"],
           !.results = [i \in KeeperIndexes |-> "pending"],
           !.log = [keys |-> <<KeyPrefix(key)>>, shares |-> shares]]

\* a handler that starts the store-share calls without waiting for the pin
UploadBeginEager(file, key, iv, coeffs, pinOk) ==
    LET blob == encryptData(file, key, iv)
        cid == PinnedCid(blob)
    IN  /\ ipfs' = IF pinOk /\ cid > Len(ipfs) THEN Append(ipfs, blob) ELSE ipfs
        /\ upload' = Distributing(file, key, coeffs, cid)

\* the handler up to the await of Promise.all: key, encryption, pin, split,
\* and one store-share call started per keeper; it logs the head of the key
\* and then each of the shares
UploadBegin(file, key, iv, coeffs, pinOk) ==
    IF ~pinOk
    THEN /\ upload' = [UploadIdle EXCEPT !.pc = "responded", !.file = file,
                                         !.encryptionKey = key,
                                         !.res = CatchAllResponse,
                                         !.log.keys = <<KeyPrefix(key)>>]
         /\ ipfs' = ipfs
    ELSE LET blob == encryptData(file, key, iv)
             cid == PinnedCid(blob)
         IN  /\ ipfs' = IF cid > Len(ipfs) THEN Append(ipfs, blob) ELSE ipfs
             /\ upload' = Distributing(file, key, coeffs, cid)

\* the keeper named in store-share call i of handler u receives the call
\* and answers it: the keepers' stores and the handler afterwards
Delivery(u, i) ==
    LET call == u.calls[i]
        accepted == StoreShareAccepted(call.keeper, call.id, call.share)
        outcome == IF accepted THEN "ok" ELSE "error"
    IN  [keeperShares |->
            IF accepted
            THEN [keeperShares EXCEPT ![call.keeper][call.id] = call.share]
            ELSE keeperShares,
         upload |-> [u EXCEPT !.wire[i] = outcome,
                              !.results[i] = CatchDelivery(outcome)]]

\* keeper i receives its store-share call and answers it
DeliverShare(i) ==
    /\ upload.pc = "distributing"
    /\ upload.wire[i] = "pending"
    /\ keeperShares' = Delivery(upload, i).keeperShares
    /\ upload' = Delivery(upload, i).upload
    /\ UNCHANGED <<now, ownerOf, crateInfo, ipfs, create,
                   keeperReq, unlockModal, recon, sss, cipher, tx, upload2, page>>

\* the store-share call to keeper i fails: the keeper is not reachable
FailShare(i) ==
    /\ upload.pc = "distributing"
    /\ upload.wire[i] = "pending"
    /\ upload' = [upload EXCEPT !.wire[i] = "error",
                                !.results[i] = CatchDelivery("error")]
    /\ UNCHANGED <<now, ownerOf, crateInfo, keeperShares, ipfs, create,
                   keeperReq, unlockModal, recon, sss, cipher, tx, upload2, page>>

\* keeper i takes the store-share call and never answers it; the call is
\* made without a timeout, so its promise stays pending
HangShare(i) ==
    /\ upload.pc = "distributing"
    /\ upload.wire[i] = "pending"
    /\ upload' = [upload EXCEPT !.wire[i] = "hung"]
    /\ UNCHANGED <<now, ownerOf, crateInfo, keeperShares, ipfs, create,
                   keeperReq, unlockModal, recon, sss, cipher, tx, upload2, page>>

\* await Promise.all(distributionPromises) returns or throws; the response
UploadRespond ==
    /\ upload.pc = "distributing"
    /\ PromiseAll(upload.results) # "pending"
    /\ upload' = [upload EXCEPT
                    !.pc = "responded",
                    !.res = IF PromiseAll(upload.results) = "rejected"
                            THEN CatchAllResponse
                            ELSE QuorumResponse(upload.ipfsCid, upload.shares,
                                                upload.results)]
    /\ UNCHANGED <<now, ownerOf, crateInfo, keeperShares, ipfs, create,
                   keeperReq, unlockModal, recon, sss, cipher, tx, upload2, page>>

\* a second request to /upload, handled while the first one is: the same
\* handler with locals of its own (encryptionKey, ipfsCid, shares)
SecondUploadWith(files, keys, ivs, coeffPool) ==
    /\ upload2.pc = "idle"
    /\ \E file \in files, key \in keys, iv \in ivs,
          coeffs \in [1..(Threshold - 1) -> coeffPool] :
          LET blob == encryptData(file, key, iv)
              cid == PinnedCid(blob)
          IN  /\ ipfs' = IF cid > Len(ipfs) THEN Append(ipfs, blob) ELSE ipfs
              /\ upload2' = Distributing(file, key, coeffs, cid)
    /\ UNCHANGED <<now, ownerOf, crateInfo, keeperShares, upload, create,
                   keeperReq, unlockModal, recon, sss, cipher, tx, page>>

SecondDeliverShare(i) ==
    /\ upload2.pc = "distributing"
    /\ upload2.wire[i] = "pending"
    /\ keeperShares' = Delivery(upload2, i).keeperShares
    /\ upload2' = Delivery(upload2, i).upload
    /\ UNCHANGED <<now, ownerOf, crateInfo, ipfs, upload, create,
                   keeperReq, unlockModal, recon, sss, cipher, tx, page>>

SecondFailShare(i) ==
    /\ upload2.pc = "distributing"
    /\ upload2.wire[i] = "pending"
    /\ upload2' = [upload2 EXCEPT !.wire[i] = "error",
                                  !.results[i] = CatchDelivery("error")]
    /\ UNCHANGED <<now, ownerOf, crateInfo, keeperShares, ipfs, upload, create,
                   keeperReq, unlockModal, recon, sss, cipher, tx, page>>

SecondUploadRespond ==
    /\ upload2.pc = "distributing"
    /\ PromiseAll(upload2.results) # "pending"
    /\ upload2' = [upload2 EXCEPT
                     !.pc = "responded",
                     !.res = IF PromiseAll(upload2.results) = "rejected"
                             THEN CatchAllResponse
                             ELSE QuorumResponse(upload2.ipfsCid, upload2.shares,
                                                 upload2.results)]
    /\ UNCHANGED <<now, ownerOf, crateInfo, keeperShares, ipfs, upload, create,
                   keeperReq, unlockModal, recon, sss, cipher, tx, page>>


(***************************************************************************)
(* Create flow: handleCreateCrate (frontend CreateCrate.tsx)               *)
(***************************************************************************)
CreateIdle ==
    [pc |-> "idle", runs |-> 0, recipient |-> ZeroAddress, releaseTimestamp |-> 0,
     txSent |-> FALSE, tokenId |-> -1, ipfsCid |-> EmptyCid,
     sharesDistributed |-> 0, keeperUrls |-> <<>>, manualShares |-> <<>>]

\* an axios that resolves whatever the status
AxiosAlwaysResolves(res) == TRUE

\* axios.post resolves for a 2xx answer and throws for every other status
AxiosResolves(res) == res.status = 200

\* the click handler up to the await of axios.post(`${BACKEND_URL}/upload`):
\* the checks of the form, then the request, which the backend starts on
HandleCreateCrateWith(files, keys, ivs, coeffPool, pinOutcomes, recipients, dates) ==
    /\ create.pc \in {"idle", "done", "error"}
    /\ create.runs < MaxCreates
    /\ upload.pc \in {"idle", "responded"}
    /\ \E file \in files, releaseDate \in dates, recipient \in recipients,
          key \in keys, iv \in ivs,
          coeffs \in [1..(Threshold - 1) -> coeffPool], pinOk \in pinOutcomes :
          /\ create' = [CreateIdle EXCEPT !.pc = "uploading",
                                          !.runs = create.runs + 1,
                                          !.recipient = recipient,
                                          !.releaseTimestamp = releaseDate]
          /\ UploadBegin(file, key, iv, coeffs, pinOk)
    /\ UNCHANGED <<now, ownerOf, crateInfo, keeperShares,
                   keeperReq, unlockModal, recon, sss, cipher, tx, upload2, page>>

\* the rest of the handler: on the answer of /upload either the catch block,
\* or the createCrate transaction, which the contract mints or reverts
CreateAfterUpload ==
    /\ create.pc = "uploading"
    /\ upload.pc = "responded"
    /\ IF ~AxiosResolves(upload.res)
       THEN /\ create' = [create EXCEPT !.pc = "error"]
            /\ UNCHANGED <<ownerOf, crateInfo, cipher, tx, upload2, page>>
       ELSE LET sent == [create EXCEPT
                           !.txSent = TRUE,
                           !.ipfsCid = upload.res.ipfsCid,
                           !.sharesDistributed = upload.res.sharesDistributed,
                           !.keeperUrls = upload.res.keeperUrls,
                           !.manualShares = upload.res.manualShares]
            IN  IF CreateCrateRequires(create.recipient, upload.res.ipfsCid,
                                       create.releaseTimestamp, upload.res.keeperUrls)
                THEN /\ totalSupply < MaxTokens
                     /\ MintCrate(create.recipient, upload.res.ipfsCid,
                                  create.releaseTimestamp, upload.res.keeperUrls)
                     /\ create' = [sent EXCEPT !.pc = "done", !.tokenId = totalSupply]
                ELSE /\ create' = [sent EXCEPT !.pc = "error"]
                     /\ UNCHANGED <<ownerOf, crateInfo, cipher, tx, upload2, page>>
    /\ UNCHANGED <<now, keeperShares, ipfs, upload,
                   keeperReq, unlockModal, recon, sss, cipher, tx, upload2, page>>

(***************************************************************************)
(* Orchestrator, POST /api/reconstruct (backend/server.js)                 *)
(***************************************************************************)
EmptyString == <<>>

\* a whitespace character in a share string
Space == -1

\* s.trim(): s without its leading and trailing whitespace
RECURSIVE TrimLeft(_)
TrimLeft(s) == IF s # <<>> /\ s[1] = Space THEN TrimLeft(Tail(s)) ELSE s
RECURSIVE TrimRight(_)
TrimRight(s) ==
    IF s # <<>> /\ s[Len(s)] = Space THEN TrimRight(SubSeq(s, 1, Len(s) - 1)) ELSE s
Trim(s) == TrimRight(TrimLeft(s))

\* the head of a share string, up to some of its data: substring(0, 32)
SharePrefix(s) ==
    [i \in 1..(IF Len(s) < 3 THEN Len(s) ELSE 3) |->
        IF i = 3 THEN s[i] \div BlockSize ELSE s[i]]

\* the request with its answer: kind ("array", "missing" or "other": what
\* the body's shares field is), shares, ipfsCid and gatewayUp are the
\* request and its environment; status, fields (the names of the JSON
\* payload's fields), error and data (the bytes sent) are the answer; stages
\* are the steps the handler ran, combined the shares it gave to
\* secrets.combine, key the key it got, log what it wrote to the console
NoReconstruct ==
    [kind |-> "array", shares |-> <<>>, ipfsCid |-> EmptyCid, gatewayUp |-> TRUE,
     status |-> 0, fields |-> {}, error |-> "", data |-> <<>>,
     stages |-> <<>>, combined |-> <<>>, key |-> 0,
     log |-> [shares |-> <<>>, keys |-> <<>>]]

\* shares.filter(s => s): non-empty, whitespace or not
nonEmptyShares(shares) == SelectSeq(shares, LAMBDA s : s # EmptyString)

\* shares.filter(s => s && s.trim().length > 0)
validShares(shares) ==
    SelectSeq(shares, LAMBDA s : s # EmptyString /\ Len(Trim(s)) > 0)

\* validShares.slice(0, 2)
FirstTwo(valid) == SubSeq(valid, 1, 2)

\* validShares, all of them
AllValid(valid) == valid

\* validShares.slice(0, 3)
FirstThree(valid) == SubSeq(valid, 1, 3)

\* a fetch that swallows its failure and hands back an empty buffer
fetchFromIPFSEmpty(cid, gatewayUp) ==
    IF gatewayUp /\ cid \in 1..Len(ipfs)
    THEN [ok |-> TRUE, data |-> ipfs[cid]]
    ELSE [ok |-> TRUE, data |-> <<>>]

\* fetchFromIPFS(ipfsCid): the pinned bytes, or a throw
fetchFromIPFS(cid, gatewayUp) ==
    IF gatewayUp /\ cid \in 1..Len(ipfs)
    THEN [ok |-> TRUE, data |-> ipfs[cid]]
    ELSE [ok |-> FALSE, data |-> <<>>]

\* the last stage of the handler: decryptData in its try block, then either
\* the decryption error or the bytes
DecryptStage(encryptedData, reconstructedKey) ==
    LET decrypted == decryptData(encryptedData, reconstructedKey)
    IN  IF ~decrypted.ok
        THEN [status |-> 500, fields |-> {"error", "details"},
              error |-> "Decryption failed. The key may be incorrect.",
              data |-> <<>>]
        ELSE [status |-> 200, fields |-> {}, error |-> "", data |-> decrypted.data]

\* the handler on a request body whose shares field is a list
Reconstruct(shares, cid, gatewayUp) ==
    LET request == [NoReconstruct EXCEPT !.shares = shares, !.ipfsCid = cid,
                                         !.gatewayUp = gatewayUp]
        valid == validShares(shares)
        reject(error) ==
            [request EXCEPT !.status = 400, !.fields = {"error"}, !.error = error]
    IN  IF Len(shares) < 3
        THEN reject("At least 3 shares are required")
        ELSE IF cid = EmptyCid
        THEN reject("IPFS CID is required")
        ELSE IF Len(valid) < 3
        THEN reject("At least 3 valid shares are required")
        ELSE LET reconstructed == Combine(FirstThree(valid))
                 fetched == fetchFromIPFS(cid, gatewayUp)
                 last == DecryptStage(fetched.data, reconstructed.key)
                 started == [request EXCEPT
                               !.combined = FirstThree(valid),
                               !.log.shares = [i \in 1..3 |-> SharePrefix(valid[i])]]
                 keyed == [started EXCEPT
                             !.key = reconstructed.key,
                             !.log.keys = <<KeyPrefix(reconstructed.key)>>]
             IN  IF ~reconstructed.ok
                 THEN [started EXCEPT
                         !.status = 400, !.fields = {"error", "details"},
                         !.error = "Failed to reconstruct key. Shares may be invalid or incompatible.",
                         !.stages = <<"combine">>]
                 ELSE IF ~fetched.ok
                 THEN [keyed EXCEPT
                         !.status = 500, !.fields = {"error", "details"},
                         !.error = "Failed to fetch file from IPFS",
                         !.stages = <<"combine", "fetch">>]
                 ELSE [keyed EXCEPT
                         !.status = last.status, !.fields = last.fields,
                         !.error = last.error, !.data = last.data,
                         !.stages = <<"combine", "fetch", "decrypt">>]

\* the handler on any request body: shares may be missing or no list
ReconstructRequest(body, gatewayUp) ==
    IF body.kind # "array"
    THEN [NoReconstruct EXCEPT !.kind = body.kind,
                               !.ipfsCid = body.ipfsCid, !.gatewayUp = gatewayUp,
                               !.status = 400, !.fields = {"error"},
                               !.error = "At least 3 shares are required"]
    ELSE Reconstruct(body.shares, body.ipfsCid, gatewayUp)

(***************************************************************************)
(* The cipher on its own: encrypt a buffer, decrypt a blob with a key      *)
(***************************************************************************)
CipherIdle == [phase |-> "idle", plain |-> <<>>, key |-> 0, iv |-> 0,
               blob |-> <<>>, given |-> <<>>, keyHex |-> 0,
               result |-> [ok |-> FALSE, data |-> <<>>],
               answer |-> [status |-> 0, fields |-> {}, error |-> "",
                           data |-> <<>>]]

\* the buffers encrypted: every buffer of at most one block, and two longer
CipherPlaintexts ==
    {<<>>} \cup {<<b>> : b \in Blocks} \cup {<<3, 2>>, <<0, 1, 1>>}

\* a key one unit too long for the cipher
LongKey == FieldSize

CipherEncrypt ==
    /\ cipher.phase = "idle"
    /\ \E plain \in CipherPlaintexts, key \in Field, iv \in Blocks :
          cipher' = [CipherIdle EXCEPT !.phase = "encrypted", !.plain = plain,
                                       !.key = key, !.iv = iv,
                                       !.blob = encryptData(plain, key, iv)]
    /\ UNCHANGED <<now, ownerOf, crateInfo, keeperShares, ipfs, upload, create,
                   keeperReq, unlockModal, recon, sss, tx, upload2, page>>

\* decryptData on the blob with any key, or on a prefix of the blob with
\* the key that encrypted it; answer is what /api/reconstruct would send
\* had it fetched these bytes and reconstructed this key
CipherDecrypt ==
    /\ cipher.phase = "encrypted"
    /\ \E n \in 0..Len(cipher.blob), keyHex \in Field \cup {LongKey} :
          /\ n = Len(cipher.blob) \/ keyHex = cipher.key
          /\ cipher' = [cipher EXCEPT
                          !.phase = "decrypted",
                          !.given = SubSeq(cipher.blob, 1, n),
                          !.keyHex = keyHex,
                          !.result = decryptData(SubSeq(cipher.blob, 1, n), keyHex),
                          !.answer = DecryptStage(SubSeq(cipher.blob, 1, n), keyHex)]
    /\ UNCHANGED <<now, ownerOf, crateInfo, keeperShares, ipfs, upload, create,
                   keeperReq, unlockModal, recon, sss, tx, upload2, page>>

(***************************************************************************)
(* Requests made by any client: a keeper's get-share, /api/reconstruct     *)
(***************************************************************************)
\* the last request made of a keeper by a client, with its answer: op is
\* "get" or "store"; sent is the share of a store request and held what the
\* keeper held for the content id when the request came in
NoKeeperReq ==
    [op |-> "", keeper |-> 0, ipfsCid |-> EmptyCid,
     requesterAddress |-> ZeroAddress,
     tokenId |-> -1, authorityUp |-> TRUE, sent |-> NoShare, held |-> NoShare,
     res |-> [status |-> "", reason |-> "", share |-> NoShare]]

\* GET <keeper>/get-share/<ipfsCid>?requesterAddress=..&tokenId=..
GetShareWith(authority, keepers, cids) ==
    /\ \E k \in keepers, cid \in cids, requester \in Addresses,
          tokenId \in 0..(MaxTokens - 1), authorityUp \in authority :
          keeperReq' = [NoKeeperReq EXCEPT
                          !.op = "get", !.keeper = k, !.ipfsCid = cid,
                          !.requesterAddress = requester, !.tokenId = tokenId,
                          !.authorityUp = authorityUp,
                          !.res = requestShare(k, cid, requester, tokenId,
                                               authorityUp)]
    /\ UNCHANGED <<now, ownerOf, crateInfo, keeperShares, ipfs, upload, create,
                   unlockModal, recon, sss, cipher, tx, upload2, page>>

\* POST <keeper>/store-share {id, share} from any client
StoreShareWith(keepers, cids, pool) ==
    /\ \E k \in keepers, cid \in cids, share \in pool :
          LET accepted == StoreShareAccepted(k, cid, share)
          IN  /\ keeperShares' =
                    IF accepted
                    THEN [keeperShares EXCEPT ![k][cid] = share]
                    ELSE keeperShares
              /\ keeperReq' = [NoKeeperReq EXCEPT
                                !.op = "store", !.keeper = k, !.ipfsCid = cid,
                                !.sent = share, !.held = keeperShares[k][cid],
                                !.res.status = IF accepted THEN "Stored"
                                               ELSE "AlreadyStored"]
    /\ UNCHANGED <<now, ownerOf, crateInfo, ipfs, upload, create,
                   unlockModal, recon, sss, cipher, tx, upload2, page>>

\* the sequences of 3 different members of a set of share strings
ThreeOf(pool) ==
    {t \in pool \X pool \X pool : t[1] # t[2] /\ t[1] # t[3] /\ t[2] # t[3]}

\* POST /api/reconstruct with three of the share strings in pool
PostReconstructWith(pool, gateway) ==
    /\ \E shares \in ThreeOf(pool), cid \in 1..Len(ipfs), gatewayUp \in gateway :
          recon' = Reconstruct(shares, cid, gatewayUp)
    /\ UNCHANGED <<now, ownerOf, crateInfo, keeperShares, ipfs, upload, create,
                   keeperReq, unlockModal, sss, cipher, tx, upload2, page>>


(***************************************************************************)
(* Unlock flow: the modal of the MyCrates page (frontend MyCrates.tsx)     *)
(***************************************************************************)
\* closeUnlockModal's state; wallet is window.ethereum.selectedAddress,
\* unreachable the keepers that did not answer the last fetch, downloaded
\* the file the browser saved
UnlockClosed ==
    [isOpen |-> FALSE, tokenId |-> -1, ipfsCid |-> EmptyCid, keeperUrls |-> <<>>,
     currentStep |-> 0, shares |-> <<>>, status |-> "", error |-> "",
     keeperShareFetched |-> FALSE, manualShares |-> <<EmptyString, EmptyString>>,
     wallet |-> ZeroAddress, unreachable |-> {}, contacted |-> {},
     marking |-> FALSE,
     downloaded |-> [done |-> FALSE, data |-> <<>>]]

\* a page that takes the keepers of the orchestrator's configuration
GlobalKeeperUrls(tokenId) == KEEPER_NODES

\* loadCrates: the keeper list of a crate card is the one getCrateInfo
\* returns for the token
LoadedKeeperUrls(tokenId) == CrateOf(tokenId).keeperUrls

\* openUnlockModal(tokenId, ipfsCid, keeperUrls) past its check of the list
OpenedModal(tokenId, ipfsCid, keeperUrls, wallet) ==
    [UnlockClosed EXCEPT !.isOpen = TRUE, !.tokenId = tokenId,
                         !.ipfsCid = ipfsCid, !.keeperUrls = keeperUrls,
                         !.currentStep = 1, !.status = "fetch first",
                         !.wallet = wallet,
                         !.downloaded = unlockModal.downloaded]

\* the Unlock button of a crate card and openUnlockModal: the page lists the
\* wallet's tokens, the button is enabled for a ready, unreleased crate
OpenUnlockModal ==
    /\ ~unlockModal.isOpen
    /\ \E wallet \in Addresses, tokenId \in 0..(totalSupply - 1) :
          /\ OwnerOfToken(tokenId) = wallet
          /\ isReleaseReady(tokenId) /\ ~CrateOf(tokenId).released
          /\ Len(LoadedKeeperUrls(tokenId)) > 0
          /\ unlockModal' = OpenedModal(tokenId, CrateOf(tokenId).ipfsCid,
                                         LoadedKeeperUrls(tokenId), wallet)
    /\ UNCHANGED <<now, ownerOf, crateInfo, keeperShares, ipfs, upload, create,
                   keeperReq, recon, sss, cipher, tx, upload2, page>>

\* a fetch that asks the first keeper of the list and no other
OnlyFirstKeeper(urls, cid, wallet, tokenId, unreachable) ==
    IF urls = <<>> \/ urls[1] \in unreachable THEN NoShare
    ELSE LET data == requestShare(urls[1], cid, wallet, tokenId, TRUE)
         IN  IF data.status = "Share" /\ data.share # EmptyString
             THEN data.share
             ELSE NoShare

\* the loop of fetchShareFromKeeper from position i on: the share of the
\* first keeper of the list that answers with one, NoShare when none does
FirstKeeperShare(urls, cid, wallet, tokenId, unreachable) ==
    LET RECURSIVE Go(_)
        Go(i) ==
            IF i > Len(urls) THEN NoShare
            ELSE IF urls[i] \in unreachable THEN Go(i + 1)
            ELSE LET data == requestShare(urls[i], cid, wallet, tokenId, TRUE)
                 IN  IF data.status = "Share" /\ data.share # EmptyString
                     THEN data.share
                     ELSE Go(i + 1)
    IN  Go(1)

\* the keepers the loop of fetchShareFromKeeper sends a request to: those
\* of the list up to the first one that answers with a share
ContactedKeepers(urls, cid, wallet, tokenId, unreachable) ==
    LET Answers(i) ==
            /\ urls[i] \notin unreachable
            /\ LET data == requestShare(urls[i], cid, wallet, tokenId, TRUE)
               IN  data.status = "Share" /\ data.share # EmptyString
        last == IF \E i \in 1..Len(urls) : Answers(i)
                THEN CHOOSE i \in 1..Len(urls) :
                        Answers(i) /\ \A j \in 1..(i - 1) : ~Answers(j)
                ELSE Len(urls)
    IN  {urls[i] : i \in 1..last}

fetchShareFromKeeper(outages) ==
    /\ unlockModal.isOpen /\ unlockModal.currentStep = 1
    /\ ~unlockModal.keeperShareFetched
    /\ \E unreachable \in outages :
          LET share == FirstKeeperShare(unlockModal.keeperUrls, unlockModal.ipfsCid,
                                        unlockModal.wallet, unlockModal.tokenId,
                                        unreachable)
              contacted == ContactedKeepers(unlockModal.keeperUrls,
                                            unlockModal.ipfsCid, unlockModal.wallet,
                                            unlockModal.tokenId, unreachable)
          IN  unlockModal' =
                 IF share # NoShare
                 THEN [unlockModal EXCEPT !.status = "received share",
                                          !.shares = <<share>>,
                                          !.keeperShareFetched = TRUE,
                                          !.error = "",
                                          !.unreachable = unreachable,
                                          !.contacted = contacted]
                 ELSE [unlockModal EXCEPT !.status = "Keeper fetch failed",
                                          !.error = "Failed to fetch share from any keeper node.",
                                          !.unreachable = unreachable,
                                          !.contacted = contacted]
    /\ UNCHANGED <<now, ownerOf, crateInfo, keeperShares, ipfs, upload, create,
                   keeperReq, recon, sss, cipher, tx, upload2, page>>

\* handleManualShareInput(index, value): the user pastes a backup share
\* returned at creation, or clears the field
handleManualShareInput ==
    /\ unlockModal.isOpen /\ unlockModal.currentStep = 1
    /\ \E index \in 1..2,
          value \in {create.manualShares[j] : j \in 1..Len(create.manualShares)}
                      \cup {EmptyString} :
          /\ unlockModal.manualShares[index] # value
          /\ unlockModal' = [unlockModal EXCEPT !.manualShares[index] = value]
    /\ UNCHANGED <<now, ownerOf, crateInfo, keeperShares, ipfs, upload, create,
                   keeperReq, recon, sss, cipher, tx, upload2, page>>

\* a client that takes every answer of /api/reconstruct for the file
ResponseAlwaysOk(response) == TRUE

\* response.ok: the status of the answer is in the range 200-299
ResponseOk(response) == response.status = 200

\* reconstructAndDecrypt: the checks, the POST to /api/reconstruct (which the
\* backend answers), and the download or the error
reconstructAndDecrypt ==
    /\ unlockModal.isOpen /\ unlockModal.currentStep = 1
    /\ unlockModal.keeperShareFetched
    /\ LET validManualShares ==
               SelectSeq(unlockModal.manualShares, LAMBDA s : s # EmptyString)
           allShares == unlockModal.shares \o validManualShares
       IN  IF Len(validManualShares) < 2
           THEN /\ unlockModal' = [unlockModal EXCEPT
                                     !.error = "Please enter 2 additional shares"]
                /\ recon' = recon
           ELSE \E gatewayUp \in BOOLEAN :
                  LET response == Reconstruct(allShares, unlockModal.ipfsCid, gatewayUp)
                  IN  /\ recon' = response
                      /\ unlockModal' =
                            IF ResponseOk(response)
                            THEN [unlockModal EXCEPT
                                    !.status = "File decrypted successfully",
                                    !.currentStep = 2, !.marking = TRUE,
                                    !.downloaded = [done |-> TRUE, data |-> response.data]]
                            ELSE [unlockModal EXCEPT
                                    !.error = "Failed to reconstruct"]
    /\ UNCHANGED <<now, ownerOf, crateInfo, keeperShares, ipfs, upload, create,
                   keeperReq, sss, cipher, tx, upload2, page>>

\* a markAsReleased that does not wait for the release time
MarkAsReleasedRequiresEarly(sender, tokenId) ==
    /\ TokenExists(tokenId)
    /\ OwnerOfToken(tokenId) = sender
    /\ ~CrateOf(tokenId).released

\* a markAsReleased that any account may call
MarkAsReleasedRequiresAnyone(sender, tokenId) ==
    /\ TokenExists(tokenId)
    /\ isReleaseReady(tokenId)
    /\ ~CrateOf(tokenId).released

\* markAsReleased(tokenId) past its requires
MarkAsReleasedRequires(sender, tokenId) ==
    /\ TokenExists(tokenId)
    /\ OwnerOfToken(tokenId) = sender
    /\ isReleaseReady(tokenId)
    /\ ~CrateOf(tokenId).released

\* markAsReleasedOnChain: the transaction, a revert is caught and logged
markAsReleasedOnChain ==
    /\ unlockModal.marking
    /\ unlockModal' = [unlockModal EXCEPT !.marking = FALSE]
    /\ crateInfo' =
          IF MarkAsReleasedRequires(unlockModal.wallet, unlockModal.tokenId)
          THEN [crateInfo EXCEPT ![unlockModal.tokenId + 1].released = TRUE]
          ELSE crateInfo
    /\ UNCHANGED <<now, ownerOf, keeperShares, ipfs, upload, create,
                   keeperReq, recon, sss, cipher, tx, upload2, page>>

\* closeUnlockModal: the Cancel and Close buttons, and the timer after a release
closeUnlockModal ==
    /\ unlockModal.isOpen
    /\ ~unlockModal.marking
    /\ unlockModal' = [UnlockClosed EXCEPT !.downloaded = unlockModal.downloaded]
    /\ UNCHANGED <<now, ownerOf, crateInfo, keeperShares, ipfs, upload, create,
                   keeperReq, recon, sss, cipher, tx, upload2, page>>

(***************************************************************************)
(* Ledger calls made by any account (contracts/TimeCrate.sol), each        *)
(* recorded with its arguments, the block timestamp and its outcome        *)
(***************************************************************************)
NoTx ==
    [fn |-> "", sender |-> ZeroAddress, recipient |-> ZeroAddress,
     ipfsCid |-> EmptyCid, releaseTime |-> 0, keeperUrls |-> <<>>,
     tokenId |-> -1, at |-> 0, status |-> "", returned |-> -1, ready |-> FALSE,
     owner |-> ZeroAddress, ids |-> <<>>]

\* a markAsReleased that also moves the release time to the present
SetReleasedNow(tokenId) ==
    [crateInfo EXCEPT ![tokenId + 1].released = TRUE,
                      ![tokenId + 1].releaseTime = now]

\* crateInfo[_tokenId].released = true
SetReleased(tokenId) == [crateInfo EXCEPT ![tokenId + 1].released = TRUE]

\* createCrate(_recipient, _ipfsCid, _releaseTime, _tokenURI, _keeperUrls)
\* with any arguments: minted, or reverted by one of the requires
CreateCrateCall(recipients, cids, dates, urlLists) ==
    /\ \E recipient \in recipients, cid \in cids, releaseTime \in dates,
          keeperUrls \in urlLists :
          LET call == [NoTx EXCEPT !.fn = "createCrate", !.recipient = recipient,
                                   !.ipfsCid = cid, !.releaseTime = releaseTime,
                                   !.keeperUrls = keeperUrls, !.at = now]
          IN  IF CreateCrateRequires(recipient, cid, releaseTime, keeperUrls)
              THEN /\ totalSupply < Cardinality(Addresses)
                   /\ MintCrate(recipient, cid, releaseTime, keeperUrls)
                   /\ tx' = [call EXCEPT !.status = "ok", !.returned = totalSupply]
              ELSE /\ tx' = [call EXCEPT !.status = "reverted"]
                   /\ UNCHANGED <<ownerOf, crateInfo>>
    /\ UNCHANGED <<now, keeperShares, ipfs, upload, create,
                   keeperReq, unlockModal, recon, sss, cipher, upload2, page>>

\* markAsReleased(_tokenId) from any account, for any token id
MarkAsReleasedCall ==
    /\ \E sender \in Addresses, tokenId \in 0..(Cardinality(Addresses) - 1) :
          LET call == [NoTx EXCEPT !.fn = "markAsReleased", !.sender = sender,
                                   !.tokenId = tokenId, !.at = now]
          IN  IF MarkAsReleasedRequires(sender, tokenId)
              THEN /\ crateInfo' = SetReleased(tokenId)
                   /\ tx' = [call EXCEPT !.status = "ok"]
              ELSE /\ tx' = [call EXCEPT !.status = "reverted"]
                   /\ UNCHANGED crateInfo
    /\ UNCHANGED <<now, ownerOf, keeperShares, ipfs, upload, create,
                   keeperReq, unlockModal, recon, sss, cipher, upload2, page>>

\* isReleaseReady(_tokenId), a view, for any token id
IsReleaseReadyCall ==
    /\ \E tokenId \in 0..(Cardinality(Addresses) - 1) :
          LET call == [NoTx EXCEPT !.fn = "isReleaseReady", !.tokenId = tokenId,
                                   !.at = now]
          IN  tx' = IF TokenExists(tokenId)
                    THEN [call EXCEPT !.status = "ok",
                                      !.ready = isReleaseReady(tokenId)]
                    ELSE [call EXCEPT !.status = "reverted"]
    /\ UNCHANGED <<now, ownerOf, crateInfo, keeperShares, ipfs, upload, create,
                   keeperReq, unlockModal, recon, sss, cipher, upload2, page>>

\* uint256 subtraction of Solidity 0.8: a negative difference panics
CheckedSub(a, b) ==
    IF a < b THEN [status |-> "reverted", value |-> 0]
    ELSE [status |-> "ok", value |-> a - b]

\* a getTimeUntilRelease that subtracts whatever the block timestamp
getTimeUntilReleaseUnguarded(tokenId) ==
    IF ~TokenExists(tokenId) THEN [status |-> "reverted", value |-> 0]
    ELSE CheckedSub(CrateOf(tokenId).releaseTime, now)

\* getTimeUntilRelease(_tokenId)
getTimeUntilRelease(tokenId) ==
    IF ~TokenExists(tokenId) THEN [status |-> "reverted", value |-> 0]
    ELSE LET releaseTime == CrateOf(tokenId).releaseTime
         IN  IF now >= releaseTime THEN [status |-> "ok", value |-> 0]
             ELSE CheckedSub(releaseTime, now)

\* getTimeUntilRelease(_tokenId), a view, for any token id
GetTimeUntilReleaseCall ==
    /\ \E tokenId \in 0..(Cardinality(Addresses) - 1) :
          LET call == [NoTx EXCEPT !.fn = "getTimeUntilRelease",
                                   !.tokenId = tokenId, !.at = now]
              answer == getTimeUntilRelease(tokenId)
          IN  tx' = IF answer.status = "ok"
                    THEN [call EXCEPT !.status = "ok", !.returned = answer.value]
                    ELSE [call EXCEPT !.status = "reverted"]
    /\ UNCHANGED <<now, ownerOf, crateInfo, keeperShares, ipfs, upload, create,
                   keeperReq, unlockModal, recon, sss, cipher, upload2, page>>

\* ERC-721 balanceOf of an account
balanceOf(owner) == Cardinality({i \in 1..Len(ownerOf) : ownerOf[i] = owner})

\* a tokensOfOwner that lists the tokens from the last to the first
tokensOfOwnerBackwards(owner) ==
    LET RECURSIVE Loop(_, _, _)
        Loop(i, tokenIds, currentIndex) ==
            IF i < 0 THEN [status |-> "ok", ids |-> tokenIds]
            ELSE IF OwnerOfToken(i) # ZeroAddress /\ OwnerOfToken(i) = owner
            THEN IF currentIndex >= Len(tokenIds)
                 THEN [status |-> "reverted", ids |-> <<>>]
                 ELSE Loop(i - 1, [tokenIds EXCEPT ![currentIndex + 1] = i],
                           currentIndex + 1)
            ELSE Loop(i - 1, tokenIds, currentIndex)
    IN  Loop(totalSupply - 1, [j \in 1..balanceOf(owner) |-> 0], 0)

\* tokensOfOwner(_owner): an array of balanceOf(_owner) slots, filled by
\* the loop over the ids below the counter; a write past its end panics
tokensOfOwner(owner) ==
    LET RECURSIVE Loop(_, _, _)
        Loop(i, tokenIds, currentIndex) ==
            IF i >= totalSupply THEN [status |-> "ok", ids |-> tokenIds]
            ELSE IF OwnerOfToken(i) # ZeroAddress /\ OwnerOfToken(i) = owner
            THEN IF currentIndex >= Len(tokenIds)
                 THEN [status |-> "reverted", ids |-> <<>>]
                 ELSE Loop(i + 1, [tokenIds EXCEPT ![currentIndex + 1] = i],
                           currentIndex + 1)
            ELSE Loop(i + 1, tokenIds, currentIndex)
    IN  Loop(0, [j \in 1..balanceOf(owner) |-> 0], 0)

\* tokensOfOwner(_owner), a view, for any account
TokensOfOwnerCall ==
    /\ \E owner \in Addresses :
          LET call == [NoTx EXCEPT !.fn = "tokensOfOwner", !.owner = owner,
                                   !.at = now]
              answer == tokensOfOwner(owner)
          IN  tx' = [call EXCEPT !.status = answer.status, !.ids = answer.ids]
    /\ UNCHANGED <<now, ownerOf, crateInfo, keeperShares, ipfs, upload, create,
                   keeperReq, unlockModal, recon, sss, cipher, upload2, page>>

(***************************************************************************)
(* The MyCrates page: crate cards, the browser's clock, the fetch under    *)
(* way (part_000)                                                          *)
(***************************************************************************)
NoFetch ==
    [pending |-> FALSE, tokenId |-> -1, ipfsCid |-> EmptyCid, keeperUrls |-> <<>>,
     wallet |-> ZeroAddress]

PageIdle == [wallet |-> ZeroAddress, crates |-> <<>>, clock |-> 0, fetching |-> NoFetch]

\* cratesData.sort((a, b) => b.createdAt - a.createdAt): newest first, cards
\* of one block in the order they were listed
RECURSIVE SortNewestFirst(_)
SortNewestFirst(cards) ==
    IF cards = <<>> THEN <<>>
    ELSE LET c == Head(cards)
             rest == SortNewestFirst(Tail(cards))
         IN  SelectSeq(rest, LAMBDA x : x.createdAt > c.createdAt)
                \o <<c>>
                \o SelectSeq(rest, LAMBDA x : x.createdAt <= c.createdAt)

\* isReady: new Date() >= crate.releaseTime, on the browser's clock
CardReady(card) == page.clock >= card.releaseTime

\* loadCrates: one card per token of the wallet, read from the ledger
loadCrates ==
    /\ \E wallet \in Addresses :
          LET tokenIds == tokensOfOwner(wallet).ids
              cratesData ==
                 [j \in 1..Len(tokenIds) |->
                     [tokenId |-> tokenIds[j],
                      ipfsCid |-> CrateOf(tokenIds[j]).ipfsCid,
                      releaseTime |-> CrateOf(tokenIds[j]).releaseTime,
                      keeperUrls |-> LoadedKeeperUrls(tokenIds[j]),
                      released |-> CrateOf(tokenIds[j]).released,
                      createdAt |-> CrateOf(tokenIds[j]).createdAt,
                      isReady |-> isReleaseReady(tokenIds[j])]]
          IN  page' = [page EXCEPT !.wallet = wallet,
                                   !.crates = SortNewestFirst(cratesData)]
    /\ page' # page
    /\ UNCHANGED <<now, ownerOf, crateInfo, keeperShares, ipfs, upload, create,
                   keeperReq, unlockModal, recon, sss, cipher, tx, upload2>>

\* the browser's clock advances; it is not the block timestamp
PageClockTick ==
    /\ page.clock < MaxTime
    /\ page' = [page EXCEPT !.clock = page.clock + 1]
    /\ UNCHANGED <<now, ownerOf, crateInfo, keeperShares, ipfs, upload, create,
                   keeperReq, unlockModal, recon, sss, cipher, tx, upload2>>

\* updateTimeRemaining, every second: isReady of every card is recomputed
updateTimeRemaining ==
    /\ page' = [page EXCEPT !.crates =
                   [j \in 1..Len(page.crates) |->
                       [page.crates[j] EXCEPT !.isReady = CardReady(page.crates[j])]]]
    /\ page' # page
    /\ UNCHANGED <<now, ownerOf, crateInfo, keeperShares, ipfs, upload, create,
                   keeperReq, unlockModal, recon, sss, cipher, tx, upload2>>

\* the Unlock button of a card, shown for crate.isReady && !crate.released,
\* and openUnlockModal with the card's values
UnlockButton ==
    /\ ~unlockModal.isOpen
    /\ \E j \in 1..Len(page.crates) :
          LET crate == page.crates[j]
          IN  /\ crate.isReady /\ ~crate.released
              /\ Len(crate.keeperUrls) > 0
              /\ unlockModal' = OpenedModal(crate.tokenId, crate.ipfsCid,
                                            crate.keeperUrls, page.wallet)
    /\ UNCHANGED <<now, ownerOf, crateInfo, keeperShares, ipfs, upload, create,
                   keeperReq, recon, sss, cipher, tx, upload2, page>>

\* fetchShareFromKeeper up to its first await: the run keeps the modal's
\* crate as it is at the click
FetchStart ==
    /\ unlockModal.isOpen /\ unlockModal.currentStep = 1
    /\ ~unlockModal.keeperShareFetched
    /\ ~page.fetching.pending
    /\ page' = [page EXCEPT !.fetching =
                   [pending |-> TRUE, tokenId |-> unlockModal.tokenId,
                    ipfsCid |-> unlockModal.ipfsCid,
                    keeperUrls |-> unlockModal.keeperUrls,
                    wallet |-> unlockModal.wallet]]
    /\ unlockModal' = [unlockModal EXCEPT !.status = "Fetching share",
                                          !.error = ""]
    /\ UNCHANGED <<now, ownerOf, crateInfo, keeperShares, ipfs, upload, create,
                   keeperReq, recon, sss, cipher, tx, upload2>>

\* the run of fetchShareFromKeeper ends: setUnlockModal(prev => ...) writes
\* its result into the modal as it is by then
FetchDone(outages) ==
    /\ page.fetching.pending
    /\ \E unreachable \in outages :
          LET f == page.fetching
              share == FirstKeeperShare(f.keeperUrls, f.ipfsCid, f.wallet,
                                        f.tokenId, unreachable)
              contacted == ContactedKeepers(f.keeperUrls, f.ipfsCid, f.wallet,
                                            f.tokenId, unreachable)
          IN  unlockModal' =
                 IF share # NoShare
                 THEN [unlockModal EXCEPT !.status = "received share",
                                          !.shares = <<share>>,
                                          !.keeperShareFetched = TRUE,
                                          !.error = "",
                                          !.unreachable = unreachable,
                                          !.contacted = contacted]
                 ELSE [unlockModal EXCEPT !.status = "Keeper fetch failed",
                                          !.error = "Failed to fetch share from any keeper node.",
                                          !.unreachable = unreachable,
                                          !.contacted = contacted]
    /\ page' = [page EXCEPT !.fetching = NoFetch]
    /\ UNCHANGED <<now, ownerOf, crateInfo, keeperShares, ipfs, upload, create,
                   keeperReq, recon, sss, cipher, tx, upload2>>

(***************************************************************************)
(* Specifications                                                          *)
(***************************************************************************)
Init ==
    /\ now = 0
    /\ ownerOf = <<>>
    /\ crateInfo = <<>>
    /\ keeperShares = [k \in Keepers |-> [c \in Cids |-> NoShare]]
    /\ ipfs = <<>>
    /\ upload = UploadIdle
    /\ create = CreateIdle
    /\ keeperReq = NoKeeperReq
    /\ unlockModal = UnlockClosed
    /\ recon = NoReconstruct
    /\ sss = SssIdle
    /\ cipher = CipherIdle
    /\ tx = NoTx
    /\ upload2 = UploadIdle
    /\ page = PageIdle

\* the splitter on its own
NextSplit == SplitSecret \/ CombineShares
SpecSplit == Init /\ [][NextSplit]_vars


\* the cipher on its own
NextCipher == CipherEncrypt \/ CipherDecrypt
SpecCipher == Init /\ [][NextCipher]_vars

\* the files, keys, IVs and polynomial coefficients the system's runs draw
SampleFiles == {<<3, 2>>}
SampleKeys == {5}
SampleIvs == {2}
SampleCoeffs == {6}

\* the create flow and the fan-out of /upload, keepers reachable or not
HandleCreateCrate ==
    HandleCreateCrateWith(SampleFiles, SampleKeys, SampleIvs, SampleCoeffs, BOOLEAN,
                          Addresses, 0..MaxTime)

Next ==
    \/ HandleCreateCrate
    \/ \E i \in KeeperIndexes : DeliverShare(i)
    \/ \E i \in KeeperIndexes : FailShare(i)
    \/ UploadRespond
    \/ CreateAfterUpload
    \/ Tick

Spec == Init /\ [][Next]_vars

\* a create flow whose pin succeeds, for alice and a date to come
HandleCreateCrateOnce ==
    HandleCreateCrateWith(SampleFiles, SampleKeys, SampleIvs, SampleCoeffs, {TRUE},
                          {"alice"}, 1..MaxTime)

\* at most two keepers out of reach at a time
TwoKeepersDown == {u \in SUBSET Keepers : Cardinality(u) <= 2}

FetchShareFromKeeper == fetchShareFromKeeper(TwoKeepersDown)

\* the unlock flow on a crate whose five shares were delivered
NextUnlock ==
    \/ HandleCreateCrateOnce
    \/ \E i \in KeeperIndexes : DeliverShare(i)
    \/ UploadRespond
    \/ CreateAfterUpload
    \/ Tick
    \/ TransferFrom
    \/ OpenUnlockModal
    \/ FetchShareFromKeeper
    \/ handleManualShareInput
    \/ reconstructAndDecrypt
    \/ markAsReleasedOnChain
    \/ closeUnlockModal

SpecUnlock == Init /\ [][NextUnlock]_vars

\* what a party holding the answer of /upload can post: the backup shares
\* and whatever share a keeper has handed out
KnownShares ==
    ({upload.res.manualShares[j] : j \in 1..Len(upload.res.manualShares)}
        \cup {keeperReq.res.share}) \ {NoShare}

\* the party posts them until it has the plaintext
PostReconstructKnown ==
    /\ recon.status # 200
    /\ PostReconstructWith(KnownShares, {TRUE})

\* bob registers a crate of his own, under any content id
DirectCreateCrate == createCrate({"bob"}, Cids, 0..MaxTime)

\* get-share requests to the first two keepers for the content ids of the
\* create flow, while the authority answers
GetShare ==
    GetShareWith({TRUE}, {KEEPER_NODES[1], KEEPER_NODES[2]}, 1..MaxCreates)

\* keepers and the ledger under get-share requests from any client
NextKeeper ==
    \/ HandleCreateCrateOnce
    \/ \E i \in KeeperIndexes : DeliverShare(i)
    \/ UploadRespond
    \/ CreateAfterUpload
    \/ DirectCreateCrate
    \/ Tick
    \/ TransferFrom
    \/ GetShare

SpecKeeper == Init /\ [][NextKeeper]_vars

\* a party that holds the answer of /upload, queries keepers and posts to
\* /api/reconstruct
NextLock ==
    \/ HandleCreateCrateOnce
    \/ \E i \in KeeperIndexes : DeliverShare(i)
    \/ UploadRespond
    \/ CreateAfterUpload
    \/ DirectCreateCrate
    \/ Tick
    \/ GetShare
    \/ PostReconstructKnown

SpecLock == Init /\ [][NextLock]_vars

\* POST /upload from any client, one request in the specification's run
PostUploadWith(files, keys, ivs, coeffPool) ==
    /\ upload.pc = "idle"
    /\ \E file \in files, key \in keys, iv \in ivs,
          coeffs \in [1..(Threshold - 1) -> coeffPool] :
          UploadBegin(file, key, iv, coeffs, TRUE)
    /\ UNCHANGED <<now, ownerOf, crateInfo, keeperShares, create,
                   keeperReq, unlockModal, recon, sss, cipher, tx, upload2, page>>

\* lock path and unlock path of the orchestrator, over every key and polynomial
RoundTripFiles == {<<>>, <<3, 2>>}
RoundTripIvs == {3}

PostUpload == PostUploadWith(RoundTripFiles, Field, RoundTripIvs, Field)

\* POST /api/reconstruct with any three of the shares of an answered upload
PostReconstructAny ==
    /\ upload.pc = "responded"
    /\ recon = NoReconstruct
    /\ PostReconstructWith({upload.shares[j] : j \in 1..Len(upload.shares)}, {TRUE})

NextRoundTrip ==
    \/ PostUpload
    \/ \E i \in KeeperIndexes : DeliverShare(i)
    \/ UploadRespond
    \/ PostReconstructAny

SpecRoundTrip == Init /\ [][NextRoundTrip]_vars

\* /api/reconstruct on its own: one upload of the sample file, whose last
\* three store-share calls may fail, then one request with any body
PostUploadSample == PostUploadWith(SampleFiles, SampleKeys, SampleIvs, SampleCoeffs)

\* a share string of whitespace only
Blank == <<Space, Space>>

\* a well-formed share string that no split produced: the first share of the
\* upload with other data
ForgedShare ==
    <<ShareBits(upload.shares[1]), ShareId(upload.shares[1]),
      (ShareData(upload.shares[1]) + 1) % FieldSize>>

\* the first share of the upload with a blank in front of it
PaddedShare == <<Space>> \o upload.shares[1]

\* what a caller may put in its list: three shares of the upload, the empty
\* string, whitespace, a forged share, a share with a blank in front
ReconstructPool ==
    {upload.shares[j] : j \in 1..Threshold}
        \cup {EmptyString, Blank, ForgedShare, PaddedShare}

\* the content ids a caller may name: none, the upload's, one never pinned
ReconstructCids == {EmptyCid, upload.ipfsCid, Len(ipfs) + 1}

\* POST /api/reconstruct with a body whose shares field is missing, is not a
\* list, or is a list of up to four strings
PostReconstructBody ==
    /\ upload.pc = "responded"
    /\ recon = NoReconstruct
    /\ \E kind \in {"array", "missing", "other"}, n \in 0..(Threshold + 1),
          cid \in ReconstructCids, gatewayUp \in BOOLEAN :
          /\ kind # "array" => n = 0
          /\ \E shares \in [1..n -> ReconstructPool] :
                recon' = ReconstructRequest(
                            [kind |-> kind, shares |-> shares, ipfsCid |-> cid],
                            gatewayUp)
    /\ UNCHANGED <<now, ownerOf, crateInfo, keeperShares, ipfs, upload, create,
                   keeperReq, unlockModal, sss, cipher, tx, upload2, page>>

NextReconstruct ==
    \/ PostUploadSample
    \/ \E i \in KeeperIndexes : DeliverShare(i)
    \/ \E i \in Threshold..TotalShares : FailShare(i)
    \/ UploadRespond
    \/ PostReconstructBody

SpecReconstruct == Init /\ [][NextReconstruct]_vars

\* the keepers' stores: the store-share calls of one upload interleaved with
\* store-share calls of another client for the same content id, sent to the
\* first two keepers with the first keeper's share or with other shares
StorePool ==
    {Split(key, TotalShares, Threshold, coeffs)[1] :
        key \in SampleKeys, coeffs \in [1..(Threshold - 1) -> SampleCoeffs]}
      \cup {<<Bits, 1, 0>>, <<Bits, 1, 1>>}

StoreShare ==
    StoreShareWith({KEEPER_NODES[1], KEEPER_NODES[2]}, 1..MaxCreates, StorePool)

NextStore ==
    \/ PostUploadSample
    \/ \E i \in KeeperIndexes : DeliverShare(i)
    \/ UploadRespond
    \/ StoreShare

SpecStore == Init /\ [][NextStore]_vars

\* the ledger on its own: crates for alice under any arguments, valid or
\* not, releases, readiness queries, transfers, and blocks
CreateCrateAny ==
    CreateCrateCall({"alice", ZeroAddress}, {EmptyCid, 1}, 0..MaxTime,
                    {<<>>, <<KEEPER_NODES[1]>>})

NextLedger ==
    \/ CreateCrateAny
    \/ MarkAsReleasedCall
    \/ IsReleaseReadyCall
    \/ GetTimeUntilReleaseCall
    \/ TokensOfOwnerCall
    \/ TransferFrom
    \/ Tick

SpecLedger == Init /\ [][NextLedger]_vars

\* /upload with keepers that answer, fail, or never answer
NextStall ==
    \/ PostUploadSample
    \/ \E i \in KeeperIndexes : DeliverShare(i)
    \/ \E i \in KeeperIndexes : FailShare(i)
    \/ \E i \in KeeperIndexes : HangShare(i)
    \/ UploadRespond

SpecStall == Init /\ [][NextStall]_vars

\* at most one keeper out of reach at a fetch
OneKeeperDown == {u \in SUBSET Keepers : Cardinality(u) <= 1}

FetchShareOneDown == fetchShareFromKeeper(OneKeeperDown)

\* a crate created while some keepers refuse their share, then unlocked
NextCustody ==
    \/ HandleCreateCrateOnce
    \/ \E i \in KeeperIndexes : DeliverShare(i)
    \/ \E i \in KeeperIndexes : FailShare(i)
    \/ UploadRespond
    \/ CreateAfterUpload
    \/ Tick
    \/ OpenUnlockModal
    \/ FetchShareOneDown
    \/ closeUnlockModal

SpecCustody == Init /\ [][NextCustody]_vars

\* the key and coefficients the second upload draws: generateEncryptionKey
\* returns fresh random bytes, so its key is not the first upload's
SecondKeys == {3}
SecondCoeffs == {1}

SecondUpload == SecondUploadWith(SampleFiles, SecondKeys, SampleIvs, SecondCoeffs)

\* two uploads in flight at once, their store-share calls interleaved
NextConcurrent ==
    \/ PostUploadSample
    \/ \E i \in KeeperIndexes : DeliverShare(i)
    \/ UploadRespond
    \/ SecondUpload
    \/ \E i \in KeeperIndexes : SecondDeliverShare(i)
    \/ \E i \in KeeperIndexes : SecondFailShare(i)
    \/ SecondUploadRespond

SpecConcurrent == Init /\ [][NextConcurrent]_vars

\* a create flow for alice whose crate is due at the next block
HandleCreateCrateSoon ==
    HandleCreateCrateWith(SampleFiles, SampleKeys, SampleIvs, SampleCoeffs, {TRUE},
                          {"alice"}, {1})

\* alice registers a second crate herself, under another content id
SecondCrate == createCrate({"alice"}, {2}, {1})

\* every keeper in reach while the page fetches
FetchDoneAllUp == FetchDone({{}})

\* the MyCrates page of a wallet with crates: loading, the timer, the
\* Unlock button, and a fetch that ends whenever the keepers have answered
NextPage ==
    \/ HandleCreateCrateSoon
    \/ \E i \in KeeperIndexes : DeliverShare(i)
    \/ UploadRespond
    \/ CreateAfterUpload
    \/ SecondCrate
    \/ Tick
    \/ PageClockTick
    \/ loadCrates
    \/ updateTimeRemaining
    \/ UnlockButton
    \/ FetchStart
    \/ FetchDoneAllUp
    \/ handleManualShareInput
    \/ reconstructAndDecrypt
    \/ markAsReleasedOnChain
    \/ closeUnlockModal

SpecPage == Init /\ [][NextPage]_vars

(***************************************************************************)
(* Properties                                                              *)
(***************************************************************************)
\* the keepers whose store-share call of the current upload succeeded
OkDeliveries == {i \in KeeperIndexes : upload.wire[i] = "ok"}
\* the upload got as far as the fan-out and has answered
FanOutAnswered == upload.pc = "responded" /\ upload.shares # <<>>
InsufficientQuorumError ==
    "Failed to distribute enough shares to keeper nodes. Need at least 3 keepers online."

\* C3: once the fan-out of /upload has answered, the answer is a success
\* exactly when at least 3 of the 5 deliveries succeeded, and with fewer
\* it is the insufficient-quorum error
C3_QuorumBoundary ==
    FanOutAnswered =>
       /\ upload.res.status = 200 <=> Cardinality(OkDeliveries) >= 3
       /\ Cardinality(OkDeliveries) < 3 =>
             /\ upload.res.status = 500
             /\ upload.res.error = InsufficientQuorumError
             /\ upload.res.successfulDistributions = Cardinality(OkDeliveries)

\* exactly three deliveries succeeded and the upload answered success
C3_Witness ==
    /\ FanOutAnswered
    /\ Cardinality(OkDeliveries) = 3
    /\ upload.res.status = 200

\* C4: on a successful /upload, keeperUrls holds exactly the endpoints whose
\* store-share call succeeded, each once and in configuration order, and
\* sharesDistributed is its length
C4_KeeperUrlsExact ==
    upload.res.status = 200 =>
       LET urls == upload.res.keeperUrls
       IN  /\ {urls[j] : j \in 1..Len(urls)} = {KEEPER_NODES[i] : i \in OkDeliveries}
           /\ Len(urls) = Cardinality(OkDeliveries)
           /\ \A a, b \in 1..Len(urls) :
                 a < b => \E i, j \in KeeperIndexes :
                             i < j /\ KEEPER_NODES[i] = urls[a] /\ KEEPER_NODES[j] = urls[b]
           /\ upload.res.sharesDistributed = Len(urls)

\* four keepers of five took their share: the list has length 4
C4_Witness ==
    /\ upload.res.status = 200
    /\ Cardinality(OkDeliveries) = 4
    /\ Len(upload.res.keeperUrls) = 4
    /\ \E i \in KeeperIndexes : upload.wire[i] = "error"

\* C5: the create flow sends the createCrate transaction, and the ledger
\* registers a crate, only in a step taken with /upload answered success,
\* at least 3 shares delivered
C5_CreateOnlyAfterUpload ==
    [][(create'.txSent /\ ~create.txSent) \/ crateInfo' # crateInfo =>
          /\ upload.pc = "responded"
          /\ upload.res.status = 200
          /\ Cardinality(OkDeliveries) >= 3]_vars

\* /upload answered the quorum error and the flow ended without a transaction
C5_Witness ==
    /\ create.pc = "error"
    /\ ~create.txSent
    /\ upload.res.status = 500
    /\ upload.res.error = InsufficientQuorumError
    /\ crateInfo = <<>>

\* C9: /upload has answered only when every store-share call has settled
C9_JoinBarrier ==
    FanOutAnswered => \A i \in KeeperIndexes : upload.wire[i] \in {"ok", "error"}

\* the answer came after a failure and four successes
C9_Witness ==
    /\ FanOutAnswered
    /\ upload.wire[1] = "error"
    /\ \A i \in KeeperIndexes \ {1} : upload.wire[i] = "ok"

\* C10: the counted outcome of keeper i is its own response: a call is
\* counted as a success exactly when it succeeded, a pending call stays
\* open while others fail, and the answer counts every success
C10_FailureIsolation ==
    /\ \A i \in KeeperIndexes :
          /\ upload.results[i] = "response" <=> upload.wire[i] = "ok"
          /\ upload.results[i] = "null" <=> upload.wire[i] = "error"
          /\ upload.wire[i] = "pending" => upload.pc = "distributing"
    /\ FanOutAnswered =>
          IF upload.res.status = 200
          THEN upload.res.sharesDistributed = Cardinality(OkDeliveries)
          ELSE upload.res.successfulDistributions = Cardinality(OkDeliveries)

\* keeper 1 failed, keeper 2 was then served and counted, keeper 3 is pending
C10_Witness ==
    /\ upload.pc = "distributing"
    /\ upload.wire[1] = "error" /\ upload.results[1] = "null"
    /\ upload.wire[2] = "ok" /\ upload.results[2] = "response"
    /\ upload.wire[3] = "pending"

\* C6: /api/reconstruct, called with the content id of a successful upload
\* and three distinct shares of that upload in any order, answers 200 with
\* exactly the uploaded payload
C6_RoundTrip ==
    /\ upload.res.status = 200
    /\ recon.ipfsCid = upload.res.ipfsCid
    /\ Len(recon.shares) = 3
    /\ \A a \in 1..3 : \E j \in 1..TotalShares : recon.shares[a] = upload.shares[j]
    /\ \A a, b \in 1..3 : a # b => recon.shares[a] # recon.shares[b]
    => /\ recon.status = 200
       /\ recon.data = upload.file
       /\ recon.key = upload.encryptionKey

\* shares 5, 2 and 4 of an upload, in that order, gave back the payload
C6_Witness ==
    /\ upload.res.status = 200
    /\ upload.file = <<3, 2>>
    /\ recon.status = 200
    /\ recon.data = <<3, 2>>
    /\ Len(recon.shares) = 3
    /\ <<ShareId(recon.shares[1]), ShareId(recon.shares[2]), ShareId(recon.shares[3])>>
          = <<5, 2, 4>>

\* C7 as stated: for 1 <= K <= N, combining any K distinct shares of
\* split(S, N, K), in any order, yields S
C7_CombineAnyK ==
    sss.phase = "combined" =>
       sss.result.ok /\ sss.result.key = sss.secret

\* C7 amended: for 2 <= K <= N, combining any K distinct shares of
\* split(S, N, K), in any order, yields S
C7_CombineAnyKFromTwo ==
    sss.phase = "combined" /\ sss.k >= 2 =>
       sss.result.ok /\ sss.result.key = sss.secret

\* shares 3 and 1 of a 2-of-3 split of secret 6, in that order, gave 6
C7_Witness ==
    /\ sss.phase = "combined"
    /\ sss.n = 3 /\ sss.k = 2 /\ sss.secret = 6
    /\ <<ShareId(sss.picked[1]), ShareId(sss.picked[2])>> = <<3, 1>>
    /\ sss.result = [ok |-> TRUE, key |-> 6]

\* the create flow has registered its crate: token create.tokenId stands for
\* content id create.ipfsCid
CrateRegistered == create.pc = "done"

\* C1: whenever a keeper answers a request for the registered crate, it
\* hands out the stored share only if, on the ledger as it is at that call,
\* the requester owns the crate's token and that token is release-ready; it
\* hands it out whenever that holds for the token the request names; and
\* every other answer is Denied with a reason and no share
C1_KeeperAuthorization ==
    [][(keeperReq' # keeperReq /\ CrateRegistered'
          /\ keeperReq'.ipfsCid = create'.ipfsCid) =>
          LET r == keeperReq'
              token == create'.tokenId
              stored == keeperShares'[r.keeper][r.ipfsCid]
              entitled == /\ ownerOf'[token + 1] = r.requesterAddress
                          /\ now' >= crateInfo'[token + 1].releaseTime
          IN  /\ r.res.status = "Share" => entitled /\ r.res.share = stored
              /\ (entitled /\ r.tokenId = token /\ stored # NoShare)
                    => r.res.status = "Share"
              /\ r.res.status # "Share" =>
                    /\ r.res.status = "Denied"
                    /\ r.res.reason \in {"NotOwner", "NotReady", "UnknownCrate"}
                    /\ r.res.share = NoShare]_vars

\* C2: before the release time of the registered crate, no party has
\* received its plaintext from /api/reconstruct
C2_LockedUntilRelease ==
    (CrateRegistered /\ now < CrateOf(create.tokenId).releaseTime) =>
       ~(/\ recon.status = 200
         /\ recon.ipfsCid = create.ipfsCid
         /\ recon.data = upload.file)

\* the unlock modal is open on the registered crate, all five keepers hold
\* their share, at most two were out of reach at the fetch, the user has
\* pasted the two backup shares returned at creation, and /api/reconstruct
\* has answered these three shares with storage reachable
UnlockAttempted ==
    /\ CrateRegistered
    /\ create.sharesDistributed = TotalShares
    /\ unlockModal.isOpen
    /\ unlockModal.tokenId = create.tokenId
    /\ unlockModal.keeperShareFetched
    /\ Cardinality(unlockModal.unreachable) <= 2
    /\ unlockModal.manualShares = create.manualShares
    /\ recon.status # 0
    /\ recon.ipfsCid = create.ipfsCid
    /\ recon.shares = unlockModal.shares \o unlockModal.manualShares
    /\ recon.error # "Failed to fetch file from IPFS"

\* C8: with any two of the five keepers out of reach, the owner who follows
\* the unlock flow reconstructs the key and obtains the plaintext
C8_ToleratesTwoKeepersDown ==
    UnlockAttempted =>
       /\ recon.status = 200
       /\ recon.key = upload.encryptionKey
       /\ unlockModal.downloaded = [done |-> TRUE, data |-> upload.file]


(***************************************************************************)
(* The cipher (SpecCipher)                                                 *)
(***************************************************************************)
\* the blob was encrypted and then handed whole to decryptData with a key
\* of the cipher's length
WholeBlobDecrypted ==
    /\ cipher.phase = "decrypted"
    /\ cipher.given = cipher.blob
    /\ cipher.keyHex \in Field

\* the blocks a key deciphers a blob's encrypted data to, before unchaining
DecipheredBlocks(blob, key) ==
    [i \in 1..(Len(blob) - 1) |-> DecryptBlock(blob[i + 1], key)]

\* C19 as stated: encryptData puts a fresh nonce in front of the encrypted
\* data, decryptData with the same key gives the plaintext back, and
\* decryptData with any other key either fails or gives back something other
\* than the plaintext.
C19_CipherRoundTrip ==
    WholeBlobDecrypted =>
        /\ cipher.blob[1] = cipher.iv
        /\ cipher.keyHex = cipher.key =>
              cipher.result.ok /\ cipher.result.data = cipher.plain
        /\ cipher.keyHex # cipher.key =>
              ~cipher.result.ok \/ cipher.result.data # cipher.plain

\* C19: encryptData puts the nonce in front of the encrypted data and
\* decryptData with the same key gives the plaintext back; decryptData with
\* another key fails, or gives back other bytes, or gives the plaintext back
\* and then that key deciphers every block of this blob as the encrypting
\* key does.
C19_CipherRoundTripSameKey ==
    WholeBlobDecrypted =>
        /\ cipher.blob[1] = cipher.iv
        /\ cipher.keyHex = cipher.key =>
              cipher.result.ok /\ cipher.result.data = cipher.plain
        /\ cipher.keyHex # cipher.key =>
              \/ ~cipher.result.ok
              \/ cipher.result.data # cipher.plain
              \/ DecipheredBlocks(cipher.blob, cipher.keyHex)
                    = DecipheredBlocks(cipher.blob, cipher.key)

\* a two-block buffer has gone through encryptData and decryptData under
\* one key
C19_Witness ==
    /\ WholeBlobDecrypted
    /\ cipher.keyHex = cipher.key
    /\ cipher.plain = <<3, 2>>
    /\ cipher.result.ok
    /\ Len(cipher.blob) = 4

\* decryptData was given a key that is not of the cipher's key length
WrongKeyLength == cipher.keyHex \notin Field

\* decryptData was given a blob with no room for the nonce
ShorterThanNonce == Len(cipher.given) < 1

\* the final block of what decryptData was given does not decipher to
\* padding under the given key (or there is no block after the nonce)
PaddingFailure ==
    /\ cipher.keyHex \in Field
    /\ Len(cipher.given) >= 1
    /\ \/ Len(cipher.given) = 1
       \/ LET n == Len(cipher.given)
          IN  GfAdd(DecryptBlock(cipher.given[n], cipher.keyHex), cipher.given[n - 1])
                 # PadBlock[1]

\* C20: decryptData fails, and returns no bytes, when the key is not of the
\* cipher's key length, when the blob is shorter than the nonce, and when the
\* final block fails the padding check; /api/reconstruct ends each of these
\* with the decryption error and sends no bytes.
C20_DecryptFailures ==
    (cipher.phase = "decrypted"
       /\ (WrongKeyLength \/ ShorterThanNonce \/ PaddingFailure)) =>
        /\ ~cipher.result.ok
        /\ cipher.result.data = <<>>
        /\ cipher.answer.status = 500
        /\ cipher.answer.error = "Decryption failed. The key may be incorrect."
        /\ cipher.answer.data = <<>>

\* a whole blob was decrypted under another key of the right length, and
\* its final block failed the padding check
C20_Witness ==
    /\ cipher.phase = "decrypted"
    /\ cipher.given = cipher.blob
    /\ cipher.keyHex # cipher.key
    /\ PaddingFailure
    /\ Len(cipher.given) >= 2
    /\ cipher.answer.status = 500


(***************************************************************************)
(* /api/reconstruct (SpecReconstruct)                                      *)
(***************************************************************************)
\* /api/reconstruct has answered a request
ReconstructAnswered == recon.status # 0

\* the strings of the request's list that hold something other than
\* whitespace, counted with their repetitions
NonBlankCount ==
    Cardinality({i \in 1..Len(recon.shares) :
                    \E j \in 1..Len(recon.shares[i]) : recon.shares[i][j] # Space})

\* the answer is the insufficient-shares error
InsufficientSharesError ==
    /\ recon.status = 400
    /\ recon.error \in {"At least 3 shares are required",
                        "At least 3 valid shares are required"}

\* the handler combined nothing, fetched nothing, decrypted nothing and
\* sent no bytes
NothingAttempted ==
    /\ recon.stages = <<>>
    /\ recon.combined = <<>>
    /\ recon.data = <<>>

NonBlankShares ==
    SelectSeq(recon.shares,
              LAMBDA s : \E j \in 1..Len(s) : s[j] # Space)

\* the request got past the checks of the body: a list, a content id, and
\* three strings that are non-empty after trimming
ReconstructAdmitted ==
    /\ ReconstructAnswered
    /\ recon.kind = "array"
    /\ recon.ipfsCid # EmptyCid
    /\ NonBlankCount >= 3

\* the answer is the key-reconstruction error
KeyReconstructionError ==
    /\ recon.status = 400
    /\ recon.error = "Failed to reconstruct key. Shares may be invalid or incompatible."

\* C13: /api/reconstruct combines exactly the first 3 valid shares, once;
\* when that combine fails the answer is the key-reconstruction error, no
\* fetch and no decryption is attempted, and no other supplied share is
\* tried.
C13_CombineFirstThree ==
    ReconstructAdmitted =>
        /\ recon.combined = SubSeq(NonBlankShares, 1, 3)
        /\ Len(recon.stages) >= 1
        /\ \A i \in 1..Len(recon.stages) : recon.stages[i] = "combine" <=> i = 1
        /\ ~Combine(SubSeq(NonBlankShares, 1, 3)).ok =>
              /\ KeyReconstructionError
              /\ recon.stages = <<"combine">>
              /\ recon.data = <<>>

\* four shares were sent, the first three of which do not combine (the first
\* is no share string: it starts with a blank) while the last three would
\* have; the answer is the key-reconstruction error
C13_Witness ==
    /\ ReconstructAdmitted
    /\ Len(recon.shares) = 4
    /\ NonBlankCount = 4
    /\ recon.shares[1] = PaddedShare
    /\ Combine(<<recon.shares[2], recon.shares[3], recon.shares[4]>>).ok
    /\ KeyReconstructionError
    /\ recon.stages = <<"combine">>


\* the first three valid shares of the request combine to a key
CombineSucceeds == Combine(SubSeq(NonBlankShares, 1, 3)).ok

\* the content id of the request is pinned and the gateway answers
FetchSucceeds == recon.gatewayUp /\ recon.ipfsCid \in 1..Len(ipfs)

\* the pinned bytes decrypt under the combined key
DecryptSucceeds ==
    decryptData(ipfs[recon.ipfsCid],
                Combine(SubSeq(NonBlankShares, 1, 3)).key).ok

\* the answer is the storage-fetch error
ContentFetchError ==
    /\ recon.status = 500
    /\ recon.error = "Failed to fetch file from IPFS"

\* the answer is the decryption error
DecryptionError ==
    /\ recon.status = 500
    /\ recon.error = "Decryption failed. The key may be incorrect."

\* C15: an admitted request whose shares do not combine, whose content
\* cannot be fetched, or whose content does not decrypt is answered with the
\* error of that stage, the three errors differ from each other, and bytes
\* are sent only when all three stages succeeded.
C15_StagedErrors ==
    ReconstructAdmitted =>
        /\ ~CombineSucceeds => KeyReconstructionError /\ ~ContentFetchError
                                                       /\ ~DecryptionError
        /\ (CombineSucceeds /\ ~FetchSucceeds) =>
              ContentFetchError /\ ~KeyReconstructionError /\ ~DecryptionError
        /\ (CombineSucceeds /\ FetchSucceeds /\ ~DecryptSucceeds) =>
              DecryptionError /\ ~KeyReconstructionError /\ ~ContentFetchError
        /\ (recon.status = 200 \/ recon.data # <<>>) =>
              /\ CombineSucceeds /\ FetchSucceeds /\ DecryptSucceeds
              /\ recon.stages = <<"combine", "fetch", "decrypt">>
        /\ (CombineSucceeds /\ FetchSucceeds /\ DecryptSucceeds) =>
              recon.status = 200 /\ recon.error = ""

\* shares that combine, to a key other than the upload's, were sent with the
\* upload's content id while storage answered; the answer is the decryption
\* error
C15_Witness ==
    /\ ReconstructAdmitted
    /\ CombineSucceeds
    /\ FetchSucceeds
    /\ recon.ipfsCid = upload.ipfsCid
    /\ recon.key # upload.encryptionKey
    /\ DecryptionError
    /\ recon.stages = <<"combine", "fetch", "decrypt">>


\* the upload got as far as the fan-out and fewer than 3 store-share calls
\* succeeded
UploadQuorumShortfall ==
    FanOutAnswered /\ Cardinality(OkDeliveries) < Threshold

LoggedShares ==
    {upload.log.shares[i] : i \in 1..Len(upload.log.shares)}
        \cup {recon.log.shares[i] : i \in 1..Len(recon.log.shares)}

\* the key entries of the log
LoggedKeys ==
    {upload.log.keys[i] : i \in 1..Len(upload.log.keys)}
        \cup {recon.log.keys[i] : i \in 1..Len(recon.log.keys)}

\* the shares of the upload that stand in the log in full
FullSharesLogged ==
    LoggedShares \cap {upload.shares[i] : i \in 1..Len(upload.shares)}

\* C17: the log of the orchestrator holds keys only as masked prefixes and
\* fewer than 3 full shares of the crate, so the crate's key cannot be
\* recovered from it.
C17_NoKeyMaterialLogged ==
    /\ \A k \in LoggedKeys : k \in 0..((FieldSize \div BlockSize) - 1)
    /\ Cardinality(FullSharesLogged) < Threshold


(***************************************************************************)
(* /upload with silent keepers (SpecStall)                                 *)
(***************************************************************************)
\* C11: an upload that waits for its store-share calls always has a way on:
\* either every call has settled and the response can be sent, or a call is
\* still due to settle (by an answer, a failure, or its timeout); a keeper
\* that never answers does not leave the request without a response.
C11_UploadNeverStalls ==
    upload.pc = "distributing" =>
        \/ PromiseAll(upload.results) # "pending"
        \/ \E i \in KeeperIndexes : upload.wire[i] = "pending"


(***************************************************************************)
(* The keepers' stores (SpecStore)                                         *)
(***************************************************************************)
\* C18: a share a keeper holds for a content id never changes, whoever
\* stores next and in whatever order the stores arrive; a store of another
\* share for an occupied slot is answered AlreadyStored, a store of the
\* share already held is accepted and changes nothing, and the upload whose
\* share was turned away counts that call as failed.
C18_StoredShareImmutable ==
    [][/\ \A k \in Keepers, cid \in Cids :
             keeperShares[k][cid] # NoShare =>
                keeperShares'[k][cid] = keeperShares[k][cid]
       /\ (keeperReq' # keeperReq /\ keeperReq'.op = "store") =>
             LET held == keeperShares[keeperReq'.keeper][keeperReq'.ipfsCid]
             IN  /\ keeperReq'.held = held
                 /\ (held # NoShare /\ keeperReq'.sent # held) =>
                       keeperReq'.res.status = "AlreadyStored"
                 /\ (held = NoShare \/ keeperReq'.sent = held) =>
                       /\ keeperReq'.res.status = "Stored"
                       /\ keeperShares'[keeperReq'.keeper][keeperReq'.ipfsCid]
                             = keeperReq'.sent
       /\ \A i \in KeeperIndexes :
             (upload.pc = "distributing" /\ upload.wire[i] = "pending"
                /\ upload'.wire[i] # "pending") =>
                LET held == keeperShares[KEEPER_NODES[i]][upload.ipfsCid]
                IN  upload'.wire[i] = "error"
                       <=> (held # NoShare /\ held # upload.shares[i])
      ]_vars

\* another client's share reached the first keeper before the upload's did:
\* the keeper still holds the client's share, the upload's call has failed,
\* and a later store of yet another share was answered AlreadyStored
C18_Witness ==
    /\ upload.wire[1] = "error"
    /\ keeperShares[KEEPER_NODES[1]][upload.ipfsCid] # NoShare
    /\ keeperShares[KEEPER_NODES[1]][upload.ipfsCid] # upload.shares[1]
    /\ keeperReq.op = "store"
    /\ keeperReq.keeper = KEEPER_NODES[1]
    /\ keeperReq.res.status = "AlreadyStored"
    /\ keeperReq.held = keeperShares[KEEPER_NODES[1]][upload.ipfsCid]


RefusedArguments(call) ==
    \/ call.releaseTime <= call.at
    \/ call.recipient = ZeroAddress
    \/ call.ipfsCid = EmptyCid
    \/ call.keeperUrls = <<>>

\* C23: createCrate reverts whenever the release time is not strictly after
\* the block timestamp, the recipient is the zero address, the content id is
\* empty or the keeper list is empty, and succeeds otherwise; a reverted
\* call leaves the token counter, every owner and every crate as they were.
C23_CreateCrateReverts ==
    [][(tx' # tx /\ tx'.fn = "createCrate") =>
          /\ tx'.at = now
          /\ RefusedArguments(tx') <=> tx'.status = "reverted"
          /\ tx'.status = "reverted" =>
                /\ Len(crateInfo') = Len(crateInfo)
                /\ ownerOf' = ownerOf
                /\ crateInfo' = crateInfo
      ]_vars

\* with one crate on the ledger, a createCrate whose release time equals
\* the block timestamp, its other arguments being in order, was reverted
C23_Witness ==
    /\ tx.fn = "createCrate"
    /\ tx.status = "reverted"
    /\ tx.releaseTime = tx.at
    /\ tx.at > 0
    /\ tx.recipient # ZeroAddress
    /\ tx.ipfsCid # EmptyCid
    /\ tx.keeperUrls # <<>>
    /\ Len(crateInfo) = 1


\* C24: isReleaseReady of an existing token answers false at every block
\* timestamp before the crate's release time and true from the release time
\* on, and reverts for a token that does not exist; as time does not go back
\* and the release time does not change, a token that is ready stays ready.
C24_ReleaseReadyFromReleaseTime ==
    [][/\ (tx' # tx /\ tx'.fn = "isReleaseReady") =>
             IF tx'.tokenId \in 0..(Len(crateInfo) - 1)
             THEN /\ tx'.status = "ok"
                  /\ tx'.ready <=> now >= crateInfo[tx'.tokenId + 1].releaseTime
             ELSE tx'.status = "reverted"
       /\ now' >= now
       /\ \A t \in 0..(Len(crateInfo) - 1) :
             /\ crateInfo'[t + 1].releaseTime = crateInfo[t + 1].releaseTime
             /\ isReleaseReady(t) => isReleaseReady(t)'
      ]_vars

\* isReleaseReady has answered true in the very block of the release time,
\* for a crate created earlier
C24_Witness ==
    /\ tx.fn = "isReleaseReady"
    /\ tx.status = "ok"
    /\ tx.ready
    /\ TokenExists(tx.tokenId)
    /\ tx.at = CrateOf(tx.tokenId).releaseTime
    /\ CrateOf(tx.tokenId).createdAt < tx.at


\* C25: whatever the contract is called with (createCrate, markAsReleased,
\* transfers), no crate is removed and the content id, release time, keeper
\* list and creation time of an existing crate stay as they were written at
\* its creation; released is the only field of a crate that changes.
C25_CrateRecordReadOnly ==
    [][/\ Len(crateInfo') >= Len(crateInfo)
       /\ \A t \in 0..(Len(crateInfo) - 1) :
             /\ crateInfo'[t + 1].ipfsCid = crateInfo[t + 1].ipfsCid
             /\ crateInfo'[t + 1].releaseTime = crateInfo[t + 1].releaseTime
             /\ crateInfo'[t + 1].keeperUrls = crateInfo[t + 1].keeperUrls
             /\ crateInfo'[t + 1].createdAt = crateInfo[t + 1].createdAt
      ]_vars

\* the first crate has been transferred and marked as released, and a second
\* crate has been created since
C25_Witness ==
    /\ Len(crateInfo) = 2
    /\ crateInfo[1].released
    /\ ownerOf[1] = "bob"
    /\ crateInfo[2].createdAt > crateInfo[1].createdAt
    /\ tx.fn = "markAsReleased"
    /\ tx.status = "ok"
    /\ tx.tokenId = 0


(***************************************************************************)
(* The shares of an unlock (SpecUnlock)                                    *)
(***************************************************************************)
\* the unlock flow has posted, for the registered crate, the share it
\* fetched from a keeper followed by the two backup shares of /upload
BackupSharesPosted ==
    /\ CrateRegistered
    /\ unlockModal.isOpen
    /\ unlockModal.tokenId = create.tokenId
    /\ unlockModal.keeperShareFetched
    /\ unlockModal.manualShares = create.manualShares
    /\ recon.status # 0
    /\ recon.ipfsCid = create.ipfsCid
    /\ recon.shares = unlockModal.shares \o unlockModal.manualShares

\* C26: the three shares the unlock flow posts to /api/reconstruct are
\* pairwise distinct when the user pasted the two backup shares: the share
\* fetched from a keeper is never one of the two backup shares
C26_PostedSharesDistinct ==
    BackupSharesPosted =>
       /\ Len(recon.shares) = Threshold
       /\ \A i, j \in 1..Len(recon.shares) :
             i # j => recon.shares[i] # recon.shares[j]


(***************************************************************************)
(* One token per content id (SpecKeeper)                                   *)
(***************************************************************************)
\* C27: at most one token on the ledger refers to a given ipfsCid, and a
\* keeper that released the share stored under the registered crate's
\* content id did so against the token registered for that content id
C27_ShareReleasedAgainstItsToken ==
    /\ \A t1, t2 \in 0..(totalSupply - 1) :
          CrateOf(t1).ipfsCid = CrateOf(t2).ipfsCid => t1 = t2
    /\ (/\ CrateRegistered
        /\ keeperReq.res.status = "Share"
        /\ keeperReq.ipfsCid = create.ipfsCid)
          => keeperReq.tokenId = create.tokenId


(***************************************************************************)
(* Ciphertext before shares (Spec)                                         *)
(***************************************************************************)
\* the blob stored under the upload's content id is the upload's file under
\* the upload's key
CiphertextStored ==
    /\ upload.ipfsCid \in 1..Len(ipfs)
    /\ decryptData(ipfs[upload.ipfsCid], upload.encryptionKey)
          = [ok |-> TRUE, data |-> upload.file]

\* C29: a store-share call of /upload is under way or done, and a keeper
\* holds a share under a content id, only once the ciphertext is stored
\* under that content id; an upload whose pin failed has answered the
\* error with no store-share call started
C29_NoShareBeforeCiphertext ==
    /\ (\E i \in KeeperIndexes : upload.wire[i] # "none") => CiphertextStored
    /\ \A k \in Keepers, cid \in Cids :
          keeperShares[k][cid] # NoShare => cid \in 1..Len(ipfs)
    /\ (upload.pc # "idle" /\ ~CiphertextStored) =>
          /\ upload.pc = "responded"
          /\ upload.res = CatchAllResponse
          /\ upload.calls = <<>>
          /\ \A i \in KeeperIndexes : upload.wire[i] = "none"

\* a keeper holds its share of the upload, whose ciphertext is stored
C29_Witness ==
    /\ CiphertextStored
    /\ \E i \in KeeperIndexes :
          /\ upload.wire[i] = "ok"
          /\ keeperShares[KEEPER_NODES[i]][upload.ipfsCid] = upload.shares[i]


(***************************************************************************)
(* The keeper list of a crate (SpecCustody)                                *)
(***************************************************************************)
\* the members of a list of keeper endpoints
UrlSet(urls) == {urls[j] : j \in 1..Len(urls)}

\* C30: the keeperUrls the create flow registered on the ledger are the
\* list /upload returned for the crate, which holds exactly the keepers
\* whose store-share call succeeded; an open unlock modal carries the
\* keeperUrls the ledger holds for its token, and a fetch has contacted
\* keepers of that list only
C30_UnlockUsesStoredKeepers ==
    /\ CrateRegistered =>
          /\ CrateOf(create.tokenId).keeperUrls = upload.res.keeperUrls
          /\ UrlSet(CrateOf(create.tokenId).keeperUrls)
                = {KEEPER_NODES[i] : i \in OkDeliveries}
    /\ unlockModal.isOpen =>
          /\ unlockModal.keeperUrls = CrateOf(unlockModal.tokenId).keeperUrls
          /\ unlockModal.contacted \subseteq UrlSet(CrateOf(unlockModal.tokenId).keeperUrls)

\* keeper 1 refused its share at creation and is not in the crate's list;
\* the unlock fetched a share after contacting keepers of the list
C30_Witness ==
    /\ CrateRegistered
    /\ upload.wire[1] = "error"
    /\ unlockModal.isOpen
    /\ unlockModal.tokenId = create.tokenId
    /\ unlockModal.keeperShareFetched
    /\ unlockModal.contacted # {}
    /\ KEEPER_NODES[1] \notin unlockModal.contacted


(***************************************************************************)
(* Concurrent uploads (SpecConcurrent)                                     *)
(***************************************************************************)
\* the /upload handlers that have got as far as the split
SplitUploads == {u \in {upload, upload2} : u.shares # <<>>}

\* the key of handler u comes back from any three of its shares, and not
\* from every two
ThreeOfFive(u) ==
    /\ Len(u.shares) = TotalShares
    /\ \A a, b, c \in KeeperIndexes :
          (a < b /\ b < c) =>
             Combine(<<u.shares[a], u.shares[b], u.shares[c]>>)
                = [ok |-> TRUE, key |-> u.encryptionKey]
    /\ \E a, b \in KeeperIndexes :
          a < b /\ Combine(<<u.shares[a], u.shares[b]>>)
                      # [ok |-> TRUE, key |-> u.encryptionKey]

\* C28: every /upload splits its key into 5 shares with threshold 3; its
\* store-share call i goes to keeper i with share i under the content id
\* storage returned for this upload's ciphertext, no two calls carry the same
\* share or go to the same keeper; and whatever a keeper holds under a
\* content id is its own share of the upload pinned under that id, while
\* two uploads run at once
C28_ShareIToKeeperI ==
    /\ \A u \in SplitUploads :
          /\ ThreeOfFive(u)
          /\ u.ipfsCid \in 1..Len(ipfs)
          /\ decryptData(ipfs[u.ipfsCid], u.encryptionKey)
                = [ok |-> TRUE, data |-> u.file]
          /\ \A i \in KeeperIndexes :
                u.calls[i] = [keeper |-> KEEPER_NODES[i], id |-> u.ipfsCid,
                              share |-> u.shares[i]]
          /\ \A i, j \in KeeperIndexes :
                i # j => /\ u.calls[i].keeper # u.calls[j].keeper
                         /\ u.calls[i].share # u.calls[j].share
    /\ \A k \in Keepers, cid \in Cids :
          keeperShares[k][cid] # NoShare =>
             \E u \in SplitUploads, i \in KeeperIndexes :
                /\ u.ipfsCid = cid
                /\ KEEPER_NODES[i] = k
                /\ u.wire[i] = "ok"
                /\ keeperShares[k][cid] = u.shares[i]

\* both uploads are in the middle of their fan-out, and keeper 1 holds a
\* share of each under their two content ids
C28_Witness ==
    /\ upload.pc = "distributing" /\ upload2.pc = "distributing"
    /\ upload.ipfsCid # upload2.ipfsCid
    /\ keeperShares[KEEPER_NODES[1]][upload.ipfsCid] = upload.shares[1]
    /\ keeperShares[KEEPER_NODES[1]][upload2.ipfsCid] = upload2.shares[1]
    /\ \E i \in KeeperIndexes : upload.wire[i] = "pending"
    /\ \E i \in KeeperIndexes : upload2.wire[i] = "pending"


(***************************************************************************)
(* markAsReleased and the released flag (SpecLedger)                       *)
(***************************************************************************)
\* C31: a markAsReleased call succeeds exactly when, at the call, the token
\* exists, the caller is its owner, the release time has come and the crate
\* is not marked released; it then sets the flag, and in every other case
\* it reverts and leaves every crate record as it was
C31_MarkAsReleasedGuards ==
    [][(tx' # tx /\ tx'.fn = "markAsReleased") =>
          LET t == tx'.tokenId
              allowed == /\ t + 1 \in 1..Len(ownerOf)
                         /\ ownerOf[t + 1] = tx'.sender
                         /\ now >= crateInfo[t + 1].releaseTime
                         /\ ~crateInfo[t + 1].released
          IN  /\ tx'.status = "ok" <=> allowed
              /\ tx'.status \in {"ok", "reverted"}
              /\ tx'.status = "ok" =>
                    crateInfo' = [crateInfo EXCEPT ![t + 1].released = TRUE]
              /\ tx'.status = "reverted" => crateInfo' = crateInfo
              /\ ownerOf' = ownerOf]_vars

\* alice, who was minted the token and has transferred it to bob, called
\* markAsReleased on the release-ready, unreleased crate and was reverted
C31_Witness ==
    /\ tx.fn = "markAsReleased" /\ tx.status = "reverted"
    /\ tx.sender = "alice"
    /\ TokenExists(tx.tokenId)
    /\ OwnerOfToken(tx.tokenId) = "bob"
    /\ CrateOf(tx.tokenId).releaseTime <= tx.at
    /\ ~CrateOf(tx.tokenId).released


\* C32: after every step, a crate marked released belongs to an existing
\* token and its release time is not after the block time; a crate enters
\* the ledger unreleased, and a released flag that is true stays true
C32_ReleasedFlag ==
    [][/\ \A i \in 1..Len(crateInfo') :
             crateInfo'[i].released =>
                /\ i \in 1..Len(ownerOf') /\ ownerOf'[i] # ZeroAddress
                /\ crateInfo'[i].releaseTime <= now'
       /\ \A i \in 1..Len(crateInfo') :
             i > Len(crateInfo) => ~crateInfo'[i].released
       /\ \A i \in 1..Len(crateInfo) :
             crateInfo[i].released =>
                i \in 1..Len(crateInfo') /\ crateInfo'[i].released]_vars

\* the owner marked the crate released and then called markAsReleased a
\* second time, which reverted: the flag is still set
C32_Witness ==
    /\ tx.fn = "markAsReleased" /\ tx.status = "reverted"
    /\ TokenExists(tx.tokenId)
    /\ OwnerOfToken(tx.tokenId) = tx.sender
    /\ CrateOf(tx.tokenId).released
    /\ CrateOf(tx.tokenId).releaseTime <= now


(***************************************************************************)
(* Token ids and the views of the ledger (SpecLedger)                      *)
(***************************************************************************)
\* C37: tokensOfOwner of an account returns, whatever creations and
\* transfers came before, the ids of the tokens the account owns at the
\* call: each of them, nothing else, in ascending order, as many as its
\* balance
C37_TokensOfOwnerExact ==
    [][(tx' # tx /\ tx'.fn = "tokensOfOwner") =>
          LET ids == tx'.ids
              owned == {t \in 0..(Len(ownerOf) - 1) : ownerOf[t + 1] = tx'.owner}
          IN  /\ tx'.status = "ok"
              /\ {ids[j] : j \in 1..Len(ids)} = owned
              /\ Len(ids) = Cardinality(owned)
              /\ \A j, k \in 1..Len(ids) : j < k => ids[j] < ids[k]]_vars

\* alice was minted tokens 0 and 1 and gave token 0 to bob; asked for hers,
\* the ledger lists token 1 alone
C37_Witness ==
    /\ tx.fn = "tokensOfOwner" /\ tx.status = "ok"
    /\ tx.owner = "alice"
    /\ tx.ids = <<1>>
    /\ ownerOf = <<"bob", "alice">>

\* C38: a successful createCrate returns the number of tokens created so
\* far and raises totalSupply by one; no other step changes totalSupply or
\* removes a token; and after every step each id below totalSupply has an
\* owner and a crate record
C38_SequentialTokenIds ==
    [][/\ IF tx' # tx /\ tx'.fn = "createCrate" /\ tx'.status = "ok"
          THEN /\ tx'.returned = Len(ownerOf)
               /\ Len(ownerOf') = Len(ownerOf) + 1
          ELSE Len(ownerOf') = Len(ownerOf)
       /\ Len(crateInfo') = Len(ownerOf')
       /\ \A i \in 1..Len(ownerOf) :
             /\ crateInfo'[i].ipfsCid = crateInfo[i].ipfsCid
             /\ crateInfo'[i].createdAt = crateInfo[i].createdAt
       /\ \A i \in 1..Len(ownerOf') :
             /\ ownerOf'[i] # ZeroAddress
             /\ crateInfo'[i].ipfsCid # EmptyCid]_vars

\* the second successful createCrate has returned id 1, and both tokens
\* are on the ledger
C38_Witness ==
    /\ tx.fn = "createCrate" /\ tx.status = "ok"
    /\ tx.returned = 1
    /\ totalSupply = 2
    /\ \A t \in 0..1 : TokenExists(t) /\ OwnerOfToken(t) # ZeroAddress

\* C39: for an existing token, getTimeUntilRelease returns 0 exactly when
\* the release time has come, and before that the release time less the
\* block timestamp, a positive number; it does not revert
C39_TimeUntilRelease ==
    [][(tx' # tx /\ tx'.fn = "getTimeUntilRelease"
          /\ tx'.tokenId + 1 \in 1..Len(crateInfo)) =>
          LET releaseTime == crateInfo[tx'.tokenId + 1].releaseTime
          IN  /\ tx'.status = "ok"
              /\ tx'.returned = 0 <=> now >= releaseTime
              /\ tx'.returned = 0 <=> isReleaseReady(tx'.tokenId)
              /\ now < releaseTime =>
                    tx'.returned = releaseTime - now /\ tx'.returned > 0]_vars

\* asked one block before the release time, and asked again after it
C39_Witness ==
    /\ tx.fn = "getTimeUntilRelease" /\ tx.status = "ok"
    /\ TokenExists(tx.tokenId)
    /\ tx.returned = 2
    /\ CrateOf(tx.tokenId).releaseTime = tx.at + 2


(***************************************************************************)
(* The steps of the unlock client (SpecUnlock)                             *)
(***************************************************************************)
\* a step of fetchShareFromKeeper: the modal is open without a keeper
\* share, and changes otherwise than by a manual entry or by closing
FetchStep ==
    /\ unlockModal.isOpen /\ unlockModal'.isOpen
    /\ ~unlockModal.keeperShareFetched
    /\ unlockModal' # unlockModal
    /\ unlockModal'.manualShares = unlockModal.manualShares

\* C33: fetchShareFromKeeper asks the keepers of the crate's list in list
\* order, passing over a keeper that is out of reach or denies; it stops at
\* the first keeper that returns a share and keeps that share alone; it
\* reports failure only when it has asked every keeper of the list and none
\* returned a share
C33_FetchTriesKeepersInOrder ==
    [][FetchStep =>
          LET urls == unlockModal.keeperUrls
              cid == unlockModal.ipfsCid
              t == unlockModal.tokenId
              givers ==
                 {i \in 1..Len(urls) :
                     /\ urls[i] \notin unlockModal'.unreachable
                     /\ keeperShares[urls[i]][cid] # NoShare
                     /\ t + 1 \in 1..Len(ownerOf)
                     /\ ownerOf[t + 1] = unlockModal.wallet
                     /\ now >= crateInfo[t + 1].releaseTime}
          IN  IF givers # {}
              THEN LET first == CHOOSE i \in givers : \A j \in givers : i <= j
                   IN  /\ unlockModal'.keeperShareFetched
                       /\ unlockModal'.shares = <<keeperShares[urls[first]][cid]>>
                       /\ unlockModal'.contacted = {urls[i] : i \in 1..first}
                       /\ unlockModal'.error = ""
              ELSE /\ ~unlockModal'.keeperShareFetched
                   /\ unlockModal'.shares = <<>>
                   /\ unlockModal'.contacted = {urls[i] : i \in 1..Len(urls)}
                   /\ unlockModal'.error = "Failed to fetch share from any keeper node."
      ]_vars

\* keepers 1 and 2 were out of reach: the fetch went on to keeper 3 and
\* kept its share
C33_Witness ==
    /\ unlockModal.isOpen /\ unlockModal.keeperShareFetched
    /\ unlockModal.unreachable = {KEEPER_NODES[1], KEEPER_NODES[2]}
    /\ unlockModal.contacted = {KEEPER_NODES[1], KEEPER_NODES[2], KEEPER_NODES[3]}
    /\ unlockModal.shares = <<keeperShares[KEEPER_NODES[3]][unlockModal.ipfsCid]>>
    /\ unlockModal.shares # <<NoShare>>


\* C35: the released flag of a crate is set from the unlock client only in
\* a step where its markAsReleased call is under way, which it is only
\* after /api/reconstruct answered 200 for the modal's crate and the file
\* it returned was handed to the user; an answer other than 200 starts no
\* markAsReleased call and leaves the ledger as it was
C35_MarkOnlyAfterDownload ==
    [][/\ unlockModal'.marking =>
             /\ recon'.status = 200
             /\ recon'.ipfsCid = unlockModal'.ipfsCid
             /\ unlockModal'.downloaded = [done |-> TRUE, data |-> recon'.data]
             /\ unlockModal'.currentStep = 2
       /\ crateInfo' # crateInfo /\ Len(crateInfo') = Len(crateInfo) =>
             /\ unlockModal.marking
             /\ recon.status = 200
             /\ unlockModal.downloaded = [done |-> TRUE, data |-> recon.data]
             /\ crateInfo' = [crateInfo EXCEPT ![unlockModal.tokenId + 1].released = TRUE]
       /\ recon' # recon /\ recon'.status # 200 =>
             /\ ~unlockModal'.marking
             /\ crateInfo' = crateInfo
      ]_vars

\* /api/reconstruct refused the three shares of the unlock, whose crate is
\* still unreleased with no markAsReleased call under way
C35_WitnessRefused ==
    /\ unlockModal.isOpen /\ unlockModal.keeperShareFetched
    /\ recon.status # 0 /\ recon.status # 200
    /\ recon.ipfsCid = unlockModal.ipfsCid
    /\ ~unlockModal.marking
    /\ ~CrateOf(unlockModal.tokenId).released

\* the file was handed to the user and the crate was then marked released
C35_Witness ==
    /\ unlockModal.isOpen /\ unlockModal.currentStep = 2
    /\ ~unlockModal.marking
    /\ recon.status = 200
    /\ unlockModal.downloaded = [done |-> TRUE, data |-> upload.file]
    /\ CrateOf(unlockModal.tokenId).released


(***************************************************************************)
(* The MyCrates page (SpecPage)                                            *)
(***************************************************************************)
\* C36: the unlock modal is open only on a crate for which the contract's
\* isReleaseReady is true, its release time having passed on the ledger
C36_UnlockOnlyWhenReadyOnChain ==
    unlockModal.isOpen =>
       /\ TokenExists(unlockModal.tokenId)
       /\ now >= CrateOf(unlockModal.tokenId).releaseTime


\* C34: a step in which the unlock client posts to /api/reconstruct is
\* taken with a keeper share fetched for the crate the modal is open on
\* and two non-empty manual shares entered; the request carries three
\* shares, that keeper share first and the manual shares after it, and the
\* content id of the modal's crate
C34_ReconstructRequestShape ==
    [][recon' # recon =>
          /\ unlockModal.isOpen
          /\ unlockModal.keeperShareFetched
          /\ \A j \in 1..2 : unlockModal.manualShares[j] # EmptyString
          /\ Len(recon'.shares) = 3
          /\ recon'.shares = unlockModal.shares \o unlockModal.manualShares
          /\ recon'.ipfsCid = unlockModal.ipfsCid
          /\ recon'.ipfsCid = CrateOf(unlockModal.tokenId).ipfsCid
          /\ \E j \in 1..Len(unlockModal.keeperUrls) :
                recon'.shares[1]
                   = keeperShares[unlockModal.keeperUrls[j]][unlockModal.ipfsCid]
      ]_vars

====
